---- MODULE Spec2Model ----
(***************************************************************************)
(* The buddy allocator of buddy_allocator/src/lib.rs: ORDERS intrusive     *)
(* free lists (buddy_allocator/src/header.rs), region registration,        *)
(* allocation with splitting and deallocation with coalescing.             *)
(*                                                                         *)
(* A free list is the sequence of the node addresses that follow its       *)
(* sentinel head, in list order: push inserts right after the head,        *)
(* pop_next removes the first node, pop removes a node wherever it is.     *)
(* A panic (an out-of-range index into free_list) stops the program; the   *)
(* state keeps what the operation had done to the lists before it.         *)
(***************************************************************************)
EXTENDS Integers, Sequences, FiniteSets, TLC

\* size_of::<BlockHeader>() on a 64-bit target: two pointers.
MIN_BLOCK_SIZE == 16
\* The const generic parameter of Allocator (the tests use 5).
ORDERS == 3
\* usize::BITS, what trailing_zeros() answers for 0.
USIZE_BITS == 64
\* Option::None, and the null pointer's Option<NonNull<u8>>.
None == -1
\* How many add_memory calls a behaviour makes.
MaxAdds == 2
\* How many blocks the callers hold at once.
MaxLive == 2
\* How many base addresses the one-block scenario tries.
MaxBase == 4
\* How many blocks of a pool in full use are free at once.
MaxChurn == 2
\* How many execution contexts call the allocator concurrently.
NCallers == 2
\* How many calls the concurrent callers make in all.
MaxCalls == 5
\* How many threads use one Mutex.
NThreads == 4
\* How many headers there are besides none: a head and the nodes pushed on it.
NNodes == 3
\* BlockBuffer's BLOCK_SIZE, in bytes.
BLOCK_SIZE == 3
\* How many bytes a BlockBuffer or a Hasher is fed in all.
MaxFed == 8
\* Hasher's DIGEST_SIZE, in bytes: the core's digest is one byte longer.
DIGEST_SIZE == 2

Min(a, b) == IF a <= b THEN a ELSE b
Max(a, b) == IF a >= b THEN a ELSE b

RECURSIVE Shl1(_)
\* 1 << k
Shl1(k) == IF k <= 0 THEN 1 ELSE 2 * Shl1(k - 1)

RECURSIVE TrailingZeros(_)
\* usize::trailing_zeros
TrailingZeros(n) ==
    IF n = 0 THEN USIZE_BITS
    ELSE IF n % 2 = 1 THEN 0 ELSE 1 + TrailingZeros(n \div 2)

RECURSIVE PowerOfTwoFrom(_, _)
PowerOfTwoFrom(p, n) == IF p >= n THEN p ELSE PowerOfTwoFrom(2 * p, n)
\* usize::next_power_of_two: the smallest power of two >= n (1 for 0)
NextPowerOfTwo(n) == PowerOfTwoFrom(1, n)

\* n & (!n + 1): the lowest set bit of n, 0 for 0
LowestSetBit(n) == IF n = 0 THEN 0 ELSE Shl1(TrailingZeros(n))

\* n & (!MIN_BLOCK_SIZE + 1): the low BASE_ORDER bits cleared
AlignDown(n) == n - (n % MIN_BLOCK_SIZE)

\* a ^ bit, for bit a power of two
XorBit(a, bit) == IF (a \div bit) % 2 = 1 THEN a - bit ELSE a + bit

BASE_ORDER == TrailingZeros(MIN_BLOCK_SIZE)
MAX_BLOCK_SIZE == Shl1(ORDERS + BASE_ORDER - 1)
Orders == 0 .. (ORDERS - 1)

(***************************************************************************)
(* header.rs: the list operations, on the sequence after the sentinel.     *)
(***************************************************************************)
IsTail(list) == list = << >>
\* push that does not link the node to the old first node.
PushForgetsList(list, node) == <<node>>
Push(list, node) == <<node>> \o list
PopNext(list) ==
    IF IsTail(list) THEN [node |-> None, list |-> list]
    ELSE [node |-> Head(list), list |-> Tail(list)]
Pop(list, node) == SelectSeq(list, LAMBDA x : x # node)
Nodes(list) == {list[i] : i \in 1 .. Len(list)}

EmptyLists == [i \in Orders |-> << >>]

(***************************************************************************)
(* Allocator::add_memory                                                   *)
(***************************************************************************)
\* add_memory without the alignment ceiling of the current address.
AddBlockSizeUnaligned(start, end) ==
    Min(MAX_BLOCK_SIZE, NextPowerOfTwo(end - start + 1) \div 2)

\* add_memory taking the power of two below the span for the one that fits it.
AddBlockSizeBelowSpan(start, end) ==
    Min(Min(MAX_BLOCK_SIZE, LowestSetBit(start)),
        NextPowerOfTwo(end - start) \div 2)

AddBlockSize(start, end) ==
    Min(Min(MAX_BLOCK_SIZE, LowestSetBit(start)),
        NextPowerOfTwo(end - start + 1) \div 2)

RECURSIVE AddLoopStopsShort(_, _, _, _)
\* add_memory leaving the loop when exactly MIN_BLOCK_SIZE bytes remain.
AddLoopStopsShort(fl, start, end, added) ==
    IF start + MIN_BLOCK_SIZE < end
    THEN LET size == AddBlockSize(start, end)
             order == TrailingZeros(size) - BASE_ORDER
         IN  IF order \notin Orders
             THEN [free_list |-> fl, added |-> added, panic |-> TRUE]
             ELSE AddLoopStopsShort([fl EXCEPT ![order] = Push(@, start)],
                                    start + size, end, added + size)
    ELSE [free_list |-> fl, added |-> added, panic |-> FALSE]

RECURSIVE AddLoop(_, _, _, _)
AddLoop(fl, start, end, added) ==
    IF start + MIN_BLOCK_SIZE <= end
    THEN LET size == AddBlockSize(start, end)
             order == TrailingZeros(size) - BASE_ORDER
         IN  IF order \notin Orders
             THEN [free_list |-> fl, added |-> added, panic |-> TRUE]
             ELSE AddLoop([fl EXCEPT ![order] = Push(@, start)],
                          start + size, end, added + size)
    ELSE [free_list |-> fl, added |-> added, panic |-> FALSE]

\* add_memory rounding the start of the pool down like its end.
AddMemoryOpRoundsStartDown(fl, pool_start, pool_len) ==
    AddLoop(fl, AlignDown(pool_start), AlignDown(pool_start + pool_len), 0)

AddMemoryOp(fl, pool_start, pool_len) ==
    AddLoop(fl, AlignDown(pool_start + MIN_BLOCK_SIZE - 1),
            AlignDown(pool_start + pool_len), 0)

(***************************************************************************)
(* Allocator::split_block, Allocator::allocate                             *)
(***************************************************************************)
\* allocate sizing the block by the layout's size alone.
LayoutSizeIgnoresAlign(size, align) ==
    Max(MIN_BLOCK_SIZE, NextPowerOfTwo(size))

LayoutSize(size, align) ==
    Max(Max(MIN_BLOCK_SIZE, NextPowerOfTwo(size)), align)
LayoutIndex(size, align) == TrailingZeros(LayoutSize(size, align)) - BASE_ORDER

\* split_block taking the size of the block it splits for the size of a half.
SplitBlockBuddyTooFar(fl, index) ==
    LET p == PopNext(fl[index])
        block_size == Shl1(index + BASE_ORDER)
        buddy == p.node + block_size
    IN  IF p.node = None THEN fl
        ELSE [fl EXCEPT ![index] = p.list,
                        ![index - 1] = Push(Push(@, buddy), p.node)]

\* split_block pushing the halves back on the list it popped the block from.
SplitBlockSameList(fl, index) ==
    LET p == PopNext(fl[index])
        block_size == Shl1(index + BASE_ORDER - 1)
        buddy == p.node + block_size
    IN  IF p.node = None THEN fl
        ELSE [fl EXCEPT ![index] = Push(Push(p.list, buddy), p.node)]

\* split_block pushing the lower half first, so that the upper half is on top.
SplitBlockUpperOnTop(fl, index) ==
    LET p == PopNext(fl[index])
        block_size == Shl1(index + BASE_ORDER - 1)
        buddy == p.node + block_size
    IN  IF p.node = None THEN fl
        ELSE [fl EXCEPT ![index] = p.list,
                        ![index - 1] = Push(Push(@, p.node), buddy)]

SplitBlock(fl, index) ==
    LET p == PopNext(fl[index])
        block_size == Shl1(index + BASE_ORDER - 1)
        buddy == p.node + block_size
    IN  IF p.node = None THEN fl
        ELSE [fl EXCEPT ![index] = p.list,
                        ![index - 1] = Push(Push(@, buddy), p.node)]

RECURSIVE SplitDown(_, _, _)
\* for j in (index + 1..i + 1).rev() { self.split_block(j) }
SplitDown(fl, j, index) ==
    IF j <= index THEN fl ELSE SplitDown(SplitBlock(fl, j), j - 1, index)

\* The orders the scan of allocate finds non-empty.
Available(fl, index) == {i \in Orders : i >= index /\ ~IsTail(fl[i])}
SmallestOf(S) == CHOOSE i \in S : \A j \in S : i <= j

\* allocate taking the first free block of a lower order when the scan finds
\* none, and dropping it as too small.
AllocateOpTakesBelow(fl, size, align) ==
    LET index == LayoutIndex(size, align)
        avail == Available(fl, index)
        below == {i \in Orders : i < index /\ ~IsTail(fl[i])}
        split == IF avail = {} THEN fl ELSE SplitDown(fl, SmallestOf(avail), index)
    IN  IF index \notin Orders
        THEN [free_list |-> fl, ret |-> None, panic |-> TRUE]
        ELSE IF avail = {} /\ below # {}
        THEN [free_list |-> [fl EXCEPT ![SmallestOf(below)] = PopNext(@).list],
              ret |-> None, panic |-> FALSE]
        ELSE LET p == PopNext(split[index])
             IN  [free_list |-> [split EXCEPT ![index] = p.list],
                  ret |-> IF p.node = 0 THEN None ELSE p.node,
                  panic |-> FALSE]

AllocateOp(fl, size, align) ==
    LET index == LayoutIndex(size, align)
        avail == Available(fl, index)
        split == IF avail = {} THEN fl ELSE SplitDown(fl, SmallestOf(avail), index)
    IN  IF index \notin Orders
        THEN [free_list |-> fl, ret |-> None, panic |-> TRUE]
        ELSE LET p == PopNext(split[index])
             IN  [free_list |-> [split EXCEPT ![index] = p.list],
                  ret |-> IF p.node = 0 THEN None ELSE p.node,
                  panic |-> FALSE]

(***************************************************************************)
(* Allocator::deallocate                                                   *)
(***************************************************************************)
RECURSIVE MergeLoopKeepsBlock(_, _, _)
\* deallocate keeping the freed block's address when it merges with a lower buddy.
MergeLoopKeepsBlock(fl, block, index) ==
    IF index \notin Orders
    THEN [free_list |-> fl, block |-> block, index |-> index]
    ELSE LET buddy == XorBit(block, Shl1(index + BASE_ORDER))
         IN  IF buddy \in Nodes(fl[index])
             THEN MergeLoopKeepsBlock([fl EXCEPT ![index] = Pop(@, buddy)],
                                      block, index + 1)
             ELSE [free_list |-> fl, block |-> block, index |-> index]

\* deallocate merging the block with its buddy once and stopping there.
MergeLoopOnce(fl, block, index) ==
    IF index \notin Orders
    THEN [free_list |-> fl, block |-> block, index |-> index]
    ELSE LET buddy == XorBit(block, Shl1(index + BASE_ORDER))
         IN  IF buddy \in Nodes(fl[index])
             THEN [free_list |-> [fl EXCEPT ![index] = Pop(@, buddy)],
                   block |-> Min(block, buddy), index |-> index + 1]
             ELSE [free_list |-> fl, block |-> block, index |-> index]

RECURSIVE MergeLoop(_, _, _)
\* for list in self.free_list.iter_mut().skip(index) { ... }
MergeLoop(fl, block, index) ==
    IF index \notin Orders
    THEN [free_list |-> fl, block |-> block, index |-> index]
    ELSE LET buddy == XorBit(block, Shl1(index + BASE_ORDER))
         IN  IF buddy \in Nodes(fl[index])
             THEN MergeLoop([fl EXCEPT ![index] = Pop(@, buddy)],
                            Min(block, buddy), index + 1)
             ELSE [free_list |-> fl, block |-> block, index |-> index]

DeallocateOp(fl, ptr, size, align) ==
    LET m == MergeLoop(fl, ptr, LayoutIndex(size, align))
    IN  IF m.index \notin Orders
        THEN [free_list |-> m.free_list, index |-> m.index, panic |-> TRUE]
        ELSE [free_list |-> [m.free_list EXCEPT ![m.index] = Push(@, m.block)],
              index |-> m.index, panic |-> FALSE]

(***************************************************************************)
(* mutex/src/lib.rs: Mutex::lock is an AtomicBool. try_lock is one         *)
(* compare_exchange(false, true); dropping the guard stores false.         *)
(***************************************************************************)
\* try_lock storing true without comparing.
TryLockNoCompare(l) == [ok |-> TRUE, lock |-> TRUE]

TryLock(l) == [ok |-> l = FALSE, lock |-> IF l = FALSE THEN TRUE ELSE l]

\* A guard whose drop does not store to the lock.
GuardDropKeepsLock(l) == l

\* MutexGuard::drop
GuardDrop(l) == FALSE

Callers == 1 .. NCallers

\* A caller that is in no call.
IdleCaller ==
    [pc |-> "idle", op |-> "none", ptr |-> 0, size |-> 0, align |-> 0,
     start |-> 0, end |-> 0, added |-> 0, block |-> 0, index |-> 0, j |-> 0,
     snap |-> EmptyLists, ret |-> None, len |-> 0]

Threads == 1 .. NThreads

\* A thread that is in no call and holds no guard.
IdleThread == [pc |-> "idle", guards |-> 0]

(***************************************************************************)
(* header.rs on its own (test_head_list, test_iter): the headers are       *)
(* ListNodes, null is 0, and one iterator is in use at a time.             *)
(***************************************************************************)
null == 0
ListNodes == 1 .. NNodes

\* BlockHeader::new
BlockHeader == [prev |-> null, next |-> null]

\* No iterator is in use.
NoIter ==
    [node |-> null, from |-> null, yielded |-> << >>, chain |-> << >>,
     popping |-> FALSE]

(***************************************************************************)
(* utils/types/block_buffer.rs, utils/traits.rs: a byte is 0 or 255 (the   *)
(* tests' data), buf is the sequence of its BLOCK_SIZE bytes, a slice is a *)
(* sequence of bytes.                                                      *)
(***************************************************************************)
Bytes == {0, 255}
Slices(n) == UNION {[1 .. k -> Bytes] : k \in 0 .. n}
Zeros == [k \in 1 .. BLOCK_SIZE |-> 0]

\* split_blocks taking the leftover from the start of the slice.
SplitBlocksTailFromStart(data) ==
    LET num_of_blocks == Len(data) \div BLOCK_SIZE
        tail_len == Len(data) % BLOCK_SIZE
    IN  [blocks |-> [i \in 1 .. num_of_blocks |->
                         SubSeq(data, (i - 1) * BLOCK_SIZE + 1, i * BLOCK_SIZE)],
         tail |-> SubSeq(data, 1, tail_len)]

\* BlockUser::split_blocks
SplitBlocks(data) ==
    LET num_of_blocks == Len(data) \div BLOCK_SIZE
        tail_len == Len(data) % BLOCK_SIZE
    IN  [blocks |-> [i \in 1 .. num_of_blocks |->
                         SubSeq(data, (i - 1) * BLOCK_SIZE + 1, i * BLOCK_SIZE)],
         tail |-> SubSeq(data, num_of_blocks * BLOCK_SIZE + 1,
                         num_of_blocks * BLOCK_SIZE + tail_len)]

\* process_data without the fill(0) after the leftover.
ProcessDataKeepsOldBytes(buf, pos, data) ==
    LET len == Len(data)
        rem == BLOCK_SIZE - pos
    IN  IF len < rem
        THEN [buf |-> [k \in 1 .. BLOCK_SIZE |->
                           IF pos < k /\ k <= pos + len THEN data[k - pos] ELSE buf[k]],
              pos |-> pos + len, blocks |-> << >>, calls |-> 0]
        ELSE LET full == [k \in 1 .. BLOCK_SIZE |->
                              IF k > pos THEN data[k - pos] ELSE buf[k]]
                 right == IF pos # 0 THEN SubSeq(data, rem + 1, len) ELSE data
                 held == IF pos # 0 THEN full ELSE buf
                 sb == SplitBlocks(right)
             IN  [buf |-> [k \in 1 .. BLOCK_SIZE |->
                               IF k <= Len(sb.tail) THEN sb.tail[k] ELSE held[k]],
                  pos |-> Len(sb.tail),
                  blocks |-> (IF pos # 0 THEN <<full>> ELSE << >>) \o sb.blocks,
                  calls |-> (IF pos # 0 THEN 1 ELSE 0)
                                + (IF sb.blocks # << >> THEN 1 ELSE 0)]

\* BlockBuffer::process_data: the new buf and pos, the blocks the processor
\* is given, in order, and how many times it is called.
ProcessData(buf, pos, data) ==
    LET len == Len(data)
        rem == BLOCK_SIZE - pos
    IN  IF len < rem
        THEN [buf |-> [k \in 1 .. BLOCK_SIZE |->
                           IF pos < k /\ k <= pos + len THEN data[k - pos] ELSE buf[k]],
              pos |-> pos + len, blocks |-> << >>, calls |-> 0]
        ELSE LET full == [k \in 1 .. BLOCK_SIZE |->
                              IF k > pos THEN data[k - pos] ELSE buf[k]]
                 right == IF pos # 0 THEN SubSeq(data, rem + 1, len) ELSE data
                 sb == SplitBlocks(right)
             IN  [buf |-> [k \in 1 .. BLOCK_SIZE |->
                               IF k <= Len(sb.tail) THEN sb.tail[k] ELSE 0],
                  pos |-> Len(sb.tail),
                  blocks |-> (IF pos # 0 THEN <<full>> ELSE << >>) \o sb.blocks,
                  calls |-> (IF pos # 0 THEN 1 ELSE 0)
                                + (IF sb.blocks # << >> THEN 1 ELSE 0)]

\* BlockBuffer::default, with nothing fed and nothing handed on.
NewBuffer ==
    [buf |-> Zeros, pos |-> 0, fed |-> << >>, handed |-> << >>, calls |-> 0,
     len |-> 0]

(***************************************************************************)
(* hash/hasher.rs over a core like hash/sha1.rs: the core holds a chaining *)
(* state, a BlockBuffer and the message length. The compression function   *)
(* is a sum in place of SHA-1's rounds, the length suffix is one byte, and *)
(* the core's digest is CORE_DIGEST_SIZE bytes read off the state.         *)
(***************************************************************************)
CORE_DIGEST_SIZE == DIGEST_SIZE + 1
StateMod == 251
SUFFIX_POS == BLOCK_SIZE - 1
\* The byte an output buffer holds before the call.
Filler == 7

RECURSIVE SumOf(_, _)
SumOf(block, k) == IF k = 0 THEN 0 ELSE k * block[k] + SumOf(block, k - 1)
\* sha1_core_digest_block
DigestBlock(state, block) == (3 * state + SumOf(block, Len(block)) + 1) % StateMod

RECURSIVE DigestBlocks(_, _, _)
DigestBlocks(state, blocks, i) ==
    IF i > Len(blocks) THEN state
    ELSE DigestBlocks(DigestBlock(state, blocks[i]), blocks, i + 1)

\* HasherCore::new
NewCore == [state |-> 1, buf |-> Zeros, pos |-> 0, msg_len |-> 0]

\* HasherCore::compress
Compress(core, data) ==
    LET r == ProcessData(core.buf, core.pos, data)
    IN  [state |-> DigestBlocks(core.state, r.blocks, 1),
         buf |-> r.buf, pos |-> r.pos, msg_len |-> core.msg_len + Len(data)]

\* HasherCore::finalize: the core it leaves and the full digest.
Finalize(core) ==
    LET pos == core.pos
        padded == [k \in 1 .. BLOCK_SIZE |->
                       IF k <= pos THEN core.buf[k]
                       ELSE IF k = pos + 1 THEN 128 ELSE 0]
        spill == pos + 1 > SUFFIX_POS
        s1 == IF spill THEN DigestBlock(core.state, padded) ELSE core.state
        b1 == IF spill THEN Zeros ELSE padded
        b2 == [k \in 1 .. BLOCK_SIZE |->
                   IF k > SUFFIX_POS THEN (core.msg_len * 8) % 256 ELSE b1[k]]
        s2 == DigestBlock(s1, b2)
    IN  [core |-> [state |-> s2, buf |-> b2, pos |-> pos, msg_len |-> core.msg_len],
         digest |-> [i \in 1 .. CORE_DIGEST_SIZE |-> (s2 * i + i) % 256]]

\* digest_into_reset finalizing and resetting before it looks at the buffer.
DigestIntoResetChecksLate(core, out) ==
    LET f == Finalize(core)
    IN  IF Len(out) < DIGEST_SIZE
        THEN [core |-> NewCore, out |-> out, ret |-> "Err"]
        ELSE [core |-> NewCore,
              out |-> [k \in 1 .. Len(out) |->
                           IF k <= DIGEST_SIZE THEN f.digest[k] ELSE out[k]],
              ret |-> "Ok"]

\* Hasher::digest_into_reset
DigestIntoReset(core, out) ==
    IF Len(out) < DIGEST_SIZE
    THEN [core |-> core, out |-> out, ret |-> "Err"]
    ELSE LET f == Finalize(core)
         IN  [core |-> NewCore,
              out |-> [k \in 1 .. Len(out) |->
                           IF k <= DIGEST_SIZE THEN f.digest[k] ELSE out[k]],
              ret |-> "Ok"]

\* Hasher::digest_into: the core is the one the consumed hasher is dropped with.
DigestInto(core, out) ==
    IF Len(out) < DIGEST_SIZE
    THEN [core |-> core, out |-> out, ret |-> "Err"]
    ELSE LET f == Finalize(core)
         IN  [core |-> f.core,
              out |-> [k \in 1 .. Len(out) |->
                           IF k <= DIGEST_SIZE THEN f.digest[k] ELSE out[k]],
              ret |-> "Ok"]

\* Hasher::new, before any digest call: op is the last call, arg the buffer
\* it was passed and before the core it was made on.
NewHasher ==
    [core |-> NewCore, alive |-> TRUE, op |-> "new", arg |-> << >>,
     out |-> << >>, ret |-> "none", before |-> NewCore]

(***************************************************************************)
(* The state.                                                              *)
(***************************************************************************)
VARIABLES
    lock,         \* Mutex.lock of the mutex around the free lists
    callers,      \* each caller's call: its position, arguments, locals, result
    calls,        \* how many calls the concurrent callers have made
    free_list,    \* Allocator.free_list: order -> nodes after the sentinel
    total_size,   \* Allocator.total_size
    allocated,    \* the blocks handed out and not yet given back, with their layout
    regions,      \* the pools passed to add_memory: <<start, len>>
    last,         \* the last call: its arguments and what it returned
    panicked,     \* the last call panicked: the program has stopped
    threads,      \* the threads that use a Mutex: position, guards they hold
    header,       \* the BlockHeaders of a list on its own: node -> prev, next
    iter,         \* Iter over that list: the current header, what it yielded
    buffer,       \* a BlockBuffer: buf, pos, and what it was fed and handed on
    hasher        \* a Hasher: its core, and the last digest call and its output

vars ==
    <<free_list, total_size, allocated, regions, last, panicked, lock, callers, calls,
      threads, header, iter, buffer, hasher>>

NoCall == [op |-> "new", size |-> 0, align |-> 0, ret |-> None, index |-> 0]

\* Allocator::new
Init ==
    /\ free_list = EmptyLists
    /\ total_size = 0
    /\ allocated = {}
    /\ regions = {}
    /\ last = NoCall
    /\ panicked = FALSE
    /\ lock = FALSE
    /\ callers = [t \in Callers |-> IdleCaller]
    /\ calls = 0
    /\ threads = [t \in Threads |-> IdleThread]
    /\ header = [n \in ListNodes |-> BlockHeader]
    /\ iter = NoIter
    /\ buffer = NewBuffer
    /\ hasher = NewHasher

\* The pools the callers register, <<start, len>>: two top-order buddies, one
\* top-order block, an unaligned pool holding one smallest block, the pool right
\* after it, a pool whose first block is limited by its alignment, and a pool
\* too small to hold a block. A slice is never at address 0.
Pools ==
    { <<2 * MAX_BLOCK_SIZE, 2 * MAX_BLOCK_SIZE>>,
      <<MAX_BLOCK_SIZE, MAX_BLOCK_SIZE>>,
      <<MIN_BLOCK_SIZE + 1, 2 * MIN_BLOCK_SIZE - 1>>,
      <<3 * MIN_BLOCK_SIZE, MIN_BLOCK_SIZE>>,
      <<3 * MIN_BLOCK_SIZE, MAX_BLOCK_SIZE>>,
      <<1, MIN_BLOCK_SIZE - 2>> }

\* The layouts the callers ask for, <<size, align>>: the smallest block, a size
\* rounded up to the next order, an alignment that asks for the top order, and
\* a size and an alignment above MAX_BLOCK_SIZE.
Layouts ==
    { <<1, 1>>,
      <<MIN_BLOCK_SIZE + 1, 1>>,
      <<1, MAX_BLOCK_SIZE>>,
      <<MAX_BLOCK_SIZE + 1, 1>>,
      <<1, 2 * MAX_BLOCK_SIZE>> }

Disjoint(s1, l1, s2, l2) == s1 + l1 <= s2 \/ s2 + l2 <= s1

AddMemory(start, len) ==
    /\ ~panicked
    /\ Cardinality(regions) < MaxAdds
    /\ \A r \in regions : Disjoint(start, len, r[1], r[2])
    /\ LET r == AddMemoryOp(free_list, start, len)
       IN  /\ free_list' = r.free_list
           /\ total_size' = IF r.panic THEN total_size ELSE total_size + r.added
           /\ panicked' = r.panic
           /\ last' = [op |-> "add_memory", size |-> len,
                       align |-> 1, ret |-> r.added, index |-> 0]
    /\ regions' = regions \cup {<<start, len>>}
    /\ UNCHANGED <<allocated, lock, callers, calls, threads, header, iter, buffer, hasher>>

Allocate(size, align) ==
    /\ ~panicked
    /\ LET r == AllocateOp(free_list, size, align)
       IN  /\ free_list' = r.free_list
           /\ panicked' = r.panic
           /\ allocated' = IF r.ret = None THEN allocated
                           ELSE allocated \cup {[ptr |-> r.ret, size |-> size, align |-> align]}
           /\ last' = [op |-> "allocate", size |-> size,
                       align |-> align, ret |-> r.ret, index |-> LayoutIndex(size, align)]
    /\ UNCHANGED <<total_size, regions, lock, callers, calls,
                   threads, header, iter, buffer, hasher>>

\* The caller gives back a block it holds, with the layout it asked for.
Deallocate(b) ==
    /\ ~panicked
    /\ b \in allocated
    /\ LET r == DeallocateOp(free_list, b.ptr, b.size, b.align)
       IN  /\ free_list' = r.free_list
           /\ panicked' = r.panic
           /\ last' = [op |-> "deallocate", size |-> b.size,
                       align |-> b.align, ret |-> None, index |-> r.index]
    /\ allocated' = allocated \ {b}
    /\ UNCHANGED <<total_size, regions, lock, callers, calls,
                   threads, header, iter, buffer, hasher>>

Next ==
    \/ \E p \in Pools : AddMemory(p[1], p[2])
    \/ \E l \in Layouts : Cardinality(allocated) < MaxLive /\ Allocate(l[1], l[2])
    \/ \E b \in allocated : Deallocate(b)

Spec == Init /\ [][Next]_vars

(***************************************************************************)
(* The tests' scenario (lib.rs test_memory_allocation, tests/allocator.rs):*)
(* one pool of one or two top-order blocks is registered, 1-byte blocks    *)
(* are allocated until allocate returns none, every block is given back    *)
(* in any order, and then MAX_BLOCK_SIZE bytes are allocated until none.   *)
(***************************************************************************)
\* One top-order block at base B, for several B.
OneBlockPools == {<<k * MAX_BLOCK_SIZE, MAX_BLOCK_SIZE>> : k \in 1 .. MaxBase}
\* Two top-order blocks that are not buddies, and two that are: a pool of
\* 2 * MAX_BLOCK_SIZE bytes on an odd and on an even multiple of MAX_BLOCK_SIZE.
TwoBlockPool == <<MAX_BLOCK_SIZE, 2 * MAX_BLOCK_SIZE>>
TwoBuddyPool == <<2 * MAX_BLOCK_SIZE, 2 * MAX_BLOCK_SIZE>>
TwoBlockPools == {TwoBlockPool, TwoBuddyPool}

\* Layout::array::<u8>(1) and Layout::array::<u8>(MAX_BLOCK_SIZE)
SmallLayout == <<1, 1>>
MaxLayout == <<MAX_BLOCK_SIZE, 1>>

SmallFailed == last.op = "allocate" /\ last.size = SmallLayout[1] /\ last.ret = None
AllGivenBack == last.op = "deallocate" /\ allocated = {}

ScenarioAdd(pools) ==
    /\ last.op = "new"
    /\ \E p \in pools : AddMemory(p[1], p[2])

ScenarioAllocateSmall ==
    /\ \/ last.op = "add_memory"
       \/ last.op = "allocate" /\ last.size = SmallLayout[1] /\ last.ret # None
    /\ Allocate(SmallLayout[1], SmallLayout[2])

ScenarioDeallocate ==
    /\ SmallFailed \/ last.op = "deallocate"
    /\ \E b \in allocated : Deallocate(b)

ScenarioAllocateMax ==
    /\ \/ AllGivenBack
       \/ last.op = "allocate" /\ last.size = MaxLayout[1] /\ last.ret # None
    /\ Allocate(MaxLayout[1], MaxLayout[2])

\* tests/allocator.rs and the spec's 512-byte scenario: two top-order blocks.
ScenarioNext ==
    \/ ScenarioAdd(TwoBlockPools)
    \/ ScenarioAllocateSmall
    \/ ScenarioDeallocate
    \/ ScenarioAllocateMax

ScenarioSpec == Init /\ [][ScenarioNext]_vars

\* test_memory_allocation: one top-order block.
RemergeNext ==
    \/ ScenarioAdd(OneBlockPools)
    \/ ScenarioAllocateSmall
    \/ ScenarioDeallocate
    \/ ScenarioAllocateMax

RemergeSpec == Init /\ [][RemergeNext]_vars

(***************************************************************************)
(* A pool of two top-order blocks in full use: 1-byte blocks are allocated *)
(* until allocate returns none, and callers give blocks back and take them *)
(* again, at most MaxChurn of the smallest blocks being free from then on. *)
(***************************************************************************)
SmallBlocks == 2 * Shl1(ORDERS - 1)

ExhaustAllocate ==
    /\ last.op # "new"
    /\ Allocate(SmallLayout[1], SmallLayout[2])

ExhaustDeallocate ==
    /\ Cardinality(allocated) > SmallBlocks - MaxChurn
    /\ \E b \in allocated : Deallocate(b)

ExhaustNext ==
    \/ ScenarioAdd(TwoBlockPools)
    \/ ExhaustAllocate
    \/ ExhaustDeallocate

ExhaustSpec == Init /\ [][ExhaustNext]_vars

(***************************************************************************)
(* tests.rs test_memory_allocation with its last step taken at any time    *)
(* after the pool is registered: the caller may ask for MAX_BLOCK_SIZE     *)
(* bytes right after add_memory, before any block was split.               *)
(***************************************************************************)
FreshAllocateMax ==
    /\ last.op = "add_memory"
    /\ Allocate(MaxLayout[1], MaxLayout[2])

FreshNext ==
    \/ ScenarioAdd(OneBlockPools)
    \/ FreshAllocateMax
    \/ ScenarioAllocateSmall
    \/ ScenarioDeallocate
    \/ ScenarioAllocateMax

FreshSpec == Init /\ [][FreshNext]_vars

(***************************************************************************)
(* lib.rs test_add_memory: a pool is registered with a new allocator, for  *)
(* every start address up to MAX_BLOCK_SIZE + MIN_BLOCK_SIZE and every     *)
(* length up to 2 * MAX_BLOCK_SIZE + MIN_BLOCK_SIZE.                       *)
(***************************************************************************)
TilePools ==
    (1 .. MAX_BLOCK_SIZE + MIN_BLOCK_SIZE) \X (0 .. 2 * MAX_BLOCK_SIZE + MIN_BLOCK_SIZE)

TileNext == ScenarioAdd(TilePools)

TileSpec == Init /\ [][TileNext]_vars

(***************************************************************************)
(* BuddyAllocator, the allocator behind the mutex (tests.rs,               *)
(* tests/allocator.rs): add_memory, get_memory and return_memory take      *)
(* &self, acquire the lock with spin_lock, run the operation of lib.rs on  *)
(* the free lists one list operation at a time, and drop the guard when    *)
(* they return. get_memory returns the address as a slice of the block's   *)
(* size.                                                                   *)
(***************************************************************************)
Inside == {"add_loop", "scan", "split", "pop", "merge", "unlock"}
CallersInside == {t \in Callers : callers[t].pc \in Inside}
InCall(op) == {t \in Callers : callers[t].pc # "idle" /\ callers[t].op = op}

\* The pools and layouts of the concurrent callers: two top-order buddies, a
\* smallest block followed by a top-order block, and a pool too small to hold
\* a block; the smallest block, a block of the second order asked for by its
\* alignment, and MAX_BLOCK_SIZE bytes.
LockPools ==
    { TwoBuddyPool,
      <<3 * MIN_BLOCK_SIZE, MAX_BLOCK_SIZE + MIN_BLOCK_SIZE>>,
      <<1, MIN_BLOCK_SIZE - 2>> }
LockLayouts == {SmallLayout, <<1, 2 * MIN_BLOCK_SIZE>>, MaxLayout}

\* The length of the slice get_memory returns.
UsableSize(size, align) == LayoutSize(size, align)

CallAddMemory(t, pool_start, pool_len) ==
    /\ ~panicked
    /\ callers[t].pc = "idle"
    /\ calls < MaxCalls
    /\ calls' = calls + 1
    /\ Cardinality(regions) < MaxAdds
    /\ \A r \in regions : Disjoint(pool_start, pool_len, r[1], r[2])
    /\ callers' = [callers EXCEPT ![t] =
           [IdleCaller EXCEPT !.pc = "spin", !.op = "add_memory",
                              !.ptr = pool_start, !.size = pool_len,
                              !.start = AlignDown(pool_start + MIN_BLOCK_SIZE - 1),
                              !.end = AlignDown(pool_start + pool_len)]]
    /\ regions' = regions \cup {<<pool_start, pool_len>>}
    /\ UNCHANGED <<free_list, total_size, allocated, last, panicked, lock,
                   threads, header, iter, buffer, hasher>>

CallGetMemory(t, size, align) ==
    /\ ~panicked
    /\ callers[t].pc = "idle"
    /\ calls < MaxCalls
    /\ calls' = calls + 1
    /\ Cardinality(allocated) + Cardinality(InCall("get_memory")) < MaxLive
    /\ callers' = [callers EXCEPT ![t] =
           [IdleCaller EXCEPT !.pc = "spin", !.op = "get_memory",
                              !.size = size, !.align = align,
                              !.index = LayoutIndex(size, align)]]
    /\ UNCHANGED <<free_list, total_size, allocated, regions, last, panicked, lock,
                   threads, header, iter, buffer, hasher>>

\* The caller gives back a block it holds, with the layout it asked for.
CallReturnMemory(t, b) ==
    /\ ~panicked
    /\ callers[t].pc = "idle"
    /\ calls < MaxCalls
    /\ calls' = calls + 1
    /\ b \in allocated
    /\ callers' = [callers EXCEPT ![t] =
           [IdleCaller EXCEPT !.pc = "spin", !.op = "return_memory",
                              !.ptr = b.ptr, !.size = b.size, !.align = b.align,
                              !.block = b.ptr,
                              !.index = LayoutIndex(b.size, b.align)]]
    /\ allocated' = allocated \ {b}
    /\ UNCHANGED <<free_list, total_size, regions, last, panicked, lock,
                   threads, header, iter, buffer, hasher>>

FirstStep(op) ==
    IF op = "add_memory" THEN "add_loop"
    ELSE IF op = "get_memory" THEN "scan" ELSE "merge"

\* Mutex::spin_lock: the iteration of the loop in which try_lock succeeds.
SpinLock(t) ==
    /\ ~panicked
    /\ callers[t].pc = "spin"
    /\ TryLock(lock).ok
    /\ lock' = TryLock(lock).lock
    /\ callers' = [callers EXCEPT ![t].pc = FirstStep(callers[t].op),
                                  ![t].snap = free_list]
    /\ UNCHANGED <<free_list, total_size, allocated, regions, last, panicked, calls,
                   threads, header, iter, buffer, hasher>>

\* add_memory: one iteration of `while start + MIN_BLOCK_SIZE <= end`, or the
\* end of the loop.
AddStep(t) ==
    LET c == callers[t]
        size == AddBlockSize(c.start, c.end)
        order == TrailingZeros(size) - BASE_ORDER
    IN  /\ ~panicked
        /\ c.pc = "add_loop"
        /\ IF c.start + MIN_BLOCK_SIZE <= c.end
           THEN IF order \notin Orders
                THEN panicked' = TRUE /\ UNCHANGED <<free_list, total_size, callers>>
                ELSE /\ free_list' = [free_list EXCEPT ![order] = Push(@, c.start)]
                     /\ callers' = [callers EXCEPT ![t].start = c.start + size,
                                                   ![t].added = c.added + size]
                     /\ UNCHANGED <<total_size, panicked>>
           ELSE /\ total_size' = total_size + c.added
                /\ callers' = [callers EXCEPT ![t].pc = "unlock", ![t].ret = c.added]
                /\ UNCHANGED <<free_list, panicked>>
        /\ UNCHANGED <<allocated, regions, last, lock, calls,
                       threads, header, iter, buffer, hasher>>

\* allocate: `for i in index..ORDERS`, up to the first list that is not empty.
ScanStep(t) ==
    LET c == callers[t]
        avail == Available(free_list, c.index)
        found == IF avail = {} THEN c.index ELSE SmallestOf(avail)
    IN  /\ ~panicked
        /\ c.pc = "scan"
        /\ IF c.index \notin Orders
           THEN panicked' = TRUE /\ UNCHANGED callers
           ELSE /\ callers' = [callers EXCEPT ![t].j = found,
                        ![t].pc = IF found > c.index THEN "split" ELSE "pop"]
                /\ UNCHANGED panicked
        /\ UNCHANGED <<free_list, total_size, allocated, regions, last, lock, calls,
                       threads, header, iter, buffer, hasher>>

\* allocate: one split_block(j) of `for j in (index + 1..i + 1).rev()`.
SplitStep(t) ==
    LET c == callers[t]
    IN  /\ ~panicked
        /\ c.pc = "split"
        /\ free_list' = SplitBlock(free_list, c.j)
        /\ callers' = [callers EXCEPT ![t].j = c.j - 1,
                        ![t].pc = IF c.j - 1 > c.index THEN "split" ELSE "pop"]
        /\ UNCHANGED <<total_size, allocated, regions, last, panicked, lock, calls,
                       threads, header, iter, buffer, hasher>>

\* allocate: self.free_list[index].pop_next().and_then(NonNull::new)
PopStep(t) ==
    LET c == callers[t]
        p == PopNext(free_list[c.index])
        ret == IF p.node = 0 THEN None ELSE p.node
    IN  /\ ~panicked
        /\ c.pc = "pop"
        /\ free_list' = [free_list EXCEPT ![c.index] = p.list]
        /\ callers' = [callers EXCEPT ![t].pc = "unlock", ![t].ret = ret,
                        ![t].len = IF ret = None THEN 0 ELSE UsableSize(c.size, c.align)]
        /\ UNCHANGED <<total_size, allocated, regions, last, panicked, lock, calls,
                       threads, header, iter, buffer, hasher>>

\* deallocate: one iteration of `for list in self.free_list.iter_mut().skip(index)`
\* that finds the buddy, or the end of the loop and the push.
MergeStep(t) ==
    LET c == callers[t]
        buddy == XorBit(c.block, Shl1(c.index + BASE_ORDER))
    IN  /\ ~panicked
        /\ c.pc = "merge"
        /\ IF c.index \in Orders /\ buddy \in Nodes(free_list[c.index])
           THEN /\ free_list' = [free_list EXCEPT ![c.index] = Pop(@, buddy)]
                /\ callers' = [callers EXCEPT ![t].block = Min(c.block, buddy),
                                              ![t].index = c.index + 1]
                /\ UNCHANGED panicked
           ELSE IF c.index \notin Orders
                THEN panicked' = TRUE /\ UNCHANGED <<free_list, callers>>
                ELSE /\ free_list' = [free_list EXCEPT ![c.index] = Push(@, c.block)]
                     /\ callers' = [callers EXCEPT ![t].pc = "unlock"]
                     /\ UNCHANGED panicked
        /\ UNCHANGED <<total_size, allocated, regions, last, lock, calls,
                       threads, header, iter, buffer, hasher>>

\* The call returns: the guard is dropped and the caller has its result.
Unlock(t) ==
    LET c == callers[t]
    IN  /\ ~panicked
        /\ c.pc = "unlock"
        /\ lock' = GuardDrop(lock)
        /\ callers' = [callers EXCEPT ![t] = IdleCaller]
        /\ allocated' = IF c.op = "get_memory" /\ c.ret # None
                        THEN allocated \cup {[ptr |-> c.ret, size |-> c.size, align |-> c.align]}
                        ELSE allocated
        /\ last' = IF c.op = "add_memory"
                   THEN [op |-> "add_memory", size |-> c.size, align |-> 1,
                         ret |-> c.ret, index |-> 0]
                   ELSE IF c.op = "get_memory"
                   THEN [op |-> "allocate", size |-> c.size, align |-> c.align,
                         ret |-> c.ret, index |-> c.index]
                   ELSE [op |-> "deallocate", size |-> c.size, align |-> c.align,
                         ret |-> None, index |-> c.index]
        /\ UNCHANGED <<free_list, total_size, regions, panicked, calls,
                       threads, header, iter, buffer, hasher>>

LockNext ==
    \E t \in Callers :
        \/ \E p \in LockPools : CallAddMemory(t, p[1], p[2])
        \/ \E l \in LockLayouts : CallGetMemory(t, l[1], l[2])
        \/ \E b \in allocated : CallReturnMemory(t, b)
        \/ SpinLock(t)
        \/ AddStep(t)
        \/ ScanStep(t)
        \/ SplitStep(t)
        \/ PopStep(t)
        \/ MergeStep(t)
        \/ Unlock(t)

LockSpec == Init /\ [][LockNext]_vars

\* The MIN_BLOCK_SIZE-aligned span of a pool: its start rounded up and its
\* exclusive end rounded down to multiples of MIN_BLOCK_SIZE.
RoundUp(a) == ((a + MIN_BLOCK_SIZE - 1) \div MIN_BLOCK_SIZE) * MIN_BLOCK_SIZE
RoundDown(a) == (a \div MIN_BLOCK_SIZE) * MIN_BLOCK_SIZE
SpanStart(p) == RoundUp(p[1])
SpanEnd(p) == RoundDown(p[1] + p[2])
TooSmall(p) == SpanEnd(p) - SpanStart(p) < MIN_BLOCK_SIZE

(***************************************************************************)
(* lib.rs test_add_memory, its first two calls made on an allocator in     *)
(* use: a top-order block is registered and 1-byte blocks are taken from   *)
(* it, and at some point a second pool is registered, one that holds no    *)
(* whole block or one of exactly MIN_BLOCK_SIZE aligned bytes.             *)
(***************************************************************************)
\* Pools that hold no whole block: every start up to 3 * MIN_BLOCK_SIZE and
\* every length below 2 * MIN_BLOCK_SIZE whose span is too short.
TooSmallPools ==
    {p \in (1 .. 3 * MIN_BLOCK_SIZE) \X (0 .. 2 * MIN_BLOCK_SIZE - 1) : TooSmall(p)}
\* Pools of exactly MIN_BLOCK_SIZE aligned bytes.
SmallestPools == {<<k * MIN_BLOCK_SIZE, MIN_BLOCK_SIZE>> : k \in 1 .. 4 * MaxBase}

SmallPoolAdd ==
    /\ Cardinality(regions) = 1
    /\ \E p \in TooSmallPools \cup SmallestPools : AddMemory(p[1], p[2])

SmallPoolAllocate ==
    /\ last.op # "new"
    /\ Cardinality(allocated) < MaxLive
    /\ Allocate(SmallLayout[1], SmallLayout[2])

SmallPoolNext ==
    \/ ScenarioAdd(OneBlockPools)
    \/ SmallPoolAllocate
    \/ SmallPoolAdd

SmallPoolSpec == Init /\ [][SmallPoolNext]_vars

(***************************************************************************)
(* What the claims speak of.                                               *)
(***************************************************************************)
BlockSize(order) == Shl1(order + BASE_ORDER)
BlockSizeOf(b) == LayoutSize(b.size, b.align)

RECURSIVE FreeBytesFrom(_, _)
FreeBytesFrom(fl, order) ==
    IF order \notin Orders THEN 0
    ELSE Len(fl[order]) * BlockSize(order) + FreeBytesFrom(fl, order + 1)
FreeBytes == FreeBytesFrom(free_list, 0)

RECURSIVE SumOfSizes(_)
SumOfSizes(S) ==
    IF S = {} THEN 0
    ELSE LET b == CHOOSE x \in S : TRUE
         IN  BlockSizeOf(b) + SumOfSizes(S \ {b})
AllocatedBytes == SumOfSizes(allocated)

\* [a, a + n) and [b, b + m) share no byte
RangesDisjoint(a, n, b, m) == a + n <= b \/ b + m <= a

TopOrder == ORDERS - 1
SameBlocks(fl1, fl2) == \A i \in Orders : Nodes(fl1[i]) = Nodes(fl2[i])
InRange(l) == LayoutIndex(l[1], l[2]) \in Orders

(***************************************************************************)
(* C1. Conservation: in every state reached by add_memory calls on         *)
(* disjoint pools, allocate calls and deallocate calls that give back a    *)
(* held block with its layout, the bytes of the blocks in the free lists   *)
(* plus the bytes of the blocks held by callers equal the sum of what      *)
(* add_memory returned (total_size).                                       *)
(***************************************************************************)
C1_Conservation == FreeBytes + AllocatedBytes = total_size

\* The same, in the states where no call has panicked.
ConservationUntilPanic == ~panicked => C1_Conservation

(***************************************************************************)
(* C2. Alignment invariant: for every order i, every node of order i's     *)
(* free list is at a multiple of MIN_BLOCK_SIZE << i.                      *)
(***************************************************************************)
C2_Alignment ==
    \A i \in Orders : \A a \in Nodes(free_list[i]) : a % BlockSize(i) = 0

\* A pool whose first block is limited by its alignment is registered, a block
\* above order 0 was split by allocate, and halves of it are free.
C2_Witness ==
    /\ <<3 * MIN_BLOCK_SIZE, MAX_BLOCK_SIZE>> \in regions
    /\ last.op = "allocate" /\ last.ret # None /\ last.index = 0
    /\ \E i \in Orders : i > 0 /\ ~IsTail(free_list[i])
    /\ Len(free_list[0]) >= 2

\* The blocks held by callers overlap nowhere.
C3_PairwiseDisjoint ==
    \A b1 \in allocated : \A b2 \in allocated :
        b1 # b2 => RangesDisjoint(b1.ptr, BlockSizeOf(b1), b2.ptr, BlockSizeOf(b2))

\* A step in which allocate returns a block: it overlaps no block already held.
C3_ReturnedIsFresh ==
    (last'.op = "allocate" /\ last'.ret # None) =>
        \A b \in allocated :
            RangesDisjoint(last'.ret, LayoutSize(last'.size, last'.align),
                           b.ptr, BlockSizeOf(b))

\* When a 1-byte allocate first fails in the scenario, the held blocks are the
\* smallest blocks at every MIN_BLOCK_SIZE-aligned address of the pool.
C3_ScenarioCovers ==
    SmallFailed =>
        \E p \in regions :
            /\ {b.ptr : b \in allocated} =
                   {p[1] + k * MIN_BLOCK_SIZE : k \in 0 .. (p[2] \div MIN_BLOCK_SIZE) - 1}
            /\ Cardinality(allocated) = SmallBlocks
            /\ \A b \in allocated : BlockSizeOf(b) = MIN_BLOCK_SIZE

(***************************************************************************)
(* C3. No double allocation: the byte ranges of any two blocks held by     *)
(* callers are disjoint, and a block that allocate returns shares no byte  *)
(* with a block already held. In the scenario (ORDERS = 5 in the spec's    *)
(* text: 32 blocks of 16 bytes in 512), the 1-byte allocations from a pool *)
(* of two top-order blocks return every MIN_BLOCK_SIZE-aligned address of  *)
(* the pool once, and allocate returns none only when all of them are held.*)
(***************************************************************************)
C3_NoDoubleAllocation ==
    /\ [](C3_PairwiseDisjoint /\ C3_ScenarioCovers)
    /\ [][C3_ReturnedIsFresh]_vars

\* The general part, which also holds with every layout and interleaved deallocates.
NoDoubleAllocationAnywhere ==
    /\ []C3_PairwiseDisjoint
    /\ [][C3_ReturnedIsFresh]_vars

\* The pool of two buddies is exhausted by 1-byte allocations and one more failed.
C3_Witness ==
    /\ SmallFailed
    /\ TwoBuddyPool \in regions
    /\ Cardinality(allocated) = SmallBlocks

(***************************************************************************)
(* C4. Coalescing is capped at the top order: a deallocate never removes   *)
(* a node from the list of order ORDERS - 1, and the order at which it     *)
(* inserts the block never exceeds ORDERS - 1 (so it does not panic).      *)
(***************************************************************************)
C4_CappedAtTopOrder ==
    [][last'.op = "deallocate" =>
          /\ ~panicked'
          /\ last'.index <= TopOrder
          /\ Nodes(free_list[TopOrder]) \subseteq Nodes(free_list'[TopOrder])]_vars

(***************************************************************************)
(* C5. Oversized requests fail soft: an allocate whose block size exceeds  *)
(* MAX_BLOCK_SIZE returns none, does not panic and leaves every free list  *)
(* as it was.                                                              *)
(***************************************************************************)
C5_OversizedFailsSoft ==
    [][(last'.op = "allocate" /\ LayoutSize(last'.size, last'.align) > MAX_BLOCK_SIZE) =>
          /\ ~panicked'
          /\ last'.ret = None
          /\ free_list' = free_list]_vars

TwoTopBlocksFree ==
    /\ Len(free_list[TopOrder]) = 2
    /\ \A i \in Orders : i < TopOrder => IsTail(free_list[i])

(***************************************************************************)
(* C6. The 512-byte scenario (ORDERS = 5 in the spec's text): a pool of    *)
(* 2 * MAX_BLOCK_SIZE bytes on a multiple of MAX_BLOCK_SIZE, odd or even,  *)
(* is registered and exhausted by 1-byte allocations; giving all blocks    *)
(* back in any order never fails and leaves two free top-order blocks and  *)
(* no free block below the top order.                                      *)
(***************************************************************************)
C6_Scenario512 == ~panicked /\ (AllGivenBack => TwoTopBlocksFree)

\* It holds for the pool on an odd multiple of MAX_BLOCK_SIZE.
Scenario512NotBuddies == TwoBlockPool \in regions => C6_Scenario512

OnlyTopBlockAt(base) ==
    free_list = [i \in Orders |-> IF i = TopOrder THEN <<base>> ELSE << >>]

(***************************************************************************)
(* C7. Full re-merge: one free top-order block at B is split completely    *)
(* into 2^(ORDERS-1) held order-0 blocks; giving all of them back in any   *)
(* order leaves exactly one free block, of the top order, at B, and an     *)
(* allocate of MAX_BLOCK_SIZE bytes then returns B.                        *)
(***************************************************************************)
C7_FullRemerge ==
    \A k \in 1 .. MaxBase :
        LET base == k * MAX_BLOCK_SIZE
        IN  regions = {<<base, MAX_BLOCK_SIZE>>} =>
              /\ ~panicked
              /\ SmallFailed => Cardinality(allocated) = Shl1(TopOrder)
              /\ AllGivenBack => OnlyTopBlockAt(base)
              /\ (last.op = "allocate" /\ last.size = MaxLayout[1]) =>
                    /\ [ptr |-> base, size |-> MaxLayout[1], align |-> MaxLayout[2]]
                          \in allocated
                    /\ last.ret # None => last.ret = base

\* All blocks were given back and the allocate of MAX_BLOCK_SIZE returned the base.
C7_Witness ==
    /\ regions = {<<2 * MAX_BLOCK_SIZE, MAX_BLOCK_SIZE>>}
    /\ last.op = "allocate" /\ last.size = MaxLayout[1]
    /\ last.ret = 2 * MAX_BLOCK_SIZE

(***************************************************************************)
(* C8. Round trip: in every state where the program runs, including after  *)
(* several add_memory calls on adjacent pools and with two free top-order  *)
(* buddies, an allocate that succeeds followed at once by the deallocate   *)
(* of the returned address with the same layout does not fail and leaves   *)
(* the same addresses in the same orders' free lists.                      *)
(***************************************************************************)
C8_RoundTrip ==
    ~panicked =>
        \A l \in Layouts :
            LET a == AllocateOp(free_list, l[1], l[2])
            IN  (~a.panic /\ a.ret # None) =>
                    LET d == DeallocateOp(a.free_list, a.ret, l[1], l[2])
                    IN  ~d.panic /\ SameBlocks(d.free_list, free_list)

\* Two free blocks of one order that are buddies.
FreeBuddies ==
    \E i \in Orders : \E a \in Nodes(free_list[i]) :
        XorBit(a, BlockSize(i)) \in Nodes(free_list[i])

\* It holds in the states without two free buddies.
RoundTripWithoutFreeBuddies == FreeBuddies \/ C8_RoundTrip

(***************************************************************************)
(* C9. Exhaustion: when the blocks held by callers sum to the bytes that   *)
(* add_memory returned, allocate returns none for every size and alignment.*)
(***************************************************************************)
C9_Exhaustion ==
    (~panicked /\ total_size > 0 /\ AllocatedBytes = total_size) =>
        \A l \in Layouts :
            LET a == AllocateOp(free_list, l[1], l[2])
            IN  ~a.panic /\ a.ret = None

\* It holds for the requests of at most MAX_BLOCK_SIZE bytes.
ExhaustionInRange ==
    (~panicked /\ total_size > 0 /\ AllocatedBytes = total_size) =>
        \A l \in Layouts :
            InRange(l) => AllocateOp(free_list, l[1], l[2]).ret = None

(***************************************************************************)
(* C10. Allocation succeeds exactly when it can: for a request whose       *)
(* target order is below ORDERS, allocate returns a block if and only if   *)
(* a free list of some order from the target order up is non-empty; when   *)
(* the upward scan finds one, the final pop at the target order finds a    *)
(* node.                                                                   *)
(***************************************************************************)
C10_SucceedsWhenItCan ==
    \A l \in Layouts :
        InRange(l) =>
            LET a == AllocateOp(free_list, l[1], l[2])
            IN  /\ ~a.panic
                /\ a.ret # None <=> Available(free_list, LayoutIndex(l[1], l[2])) # {}

\* An allocate has split a block and returned its lower part; one request can
\* still be served only by a further split and another cannot be served.
C10_Witness ==
    /\ last.op = "allocate" /\ last.ret # None /\ last.index = 0
    /\ IsTail(free_list[0])
    /\ Available(free_list, 0) # {}
    /\ \E l \in Layouts : InRange(l) /\ Available(free_list, LayoutIndex(l[1], l[2])) = {}

(***************************************************************************)
(* C11. A failed allocation is a no-op: whenever allocate returns none     *)
(* because no free list of the target order or above is non-empty, every   *)
(* free list holds the same nodes in the same sequence as before the call. *)
(***************************************************************************)
C11_FailedAllocateIsNoOp ==
    \A l \in Layouts :
        LET a == AllocateOp(free_list, l[1], l[2])
        IN  /\ (InRange(l) /\ Available(free_list, LayoutIndex(l[1], l[2])) = {}) =>
                   ~a.panic /\ a.ret = None
            /\ (~a.panic /\ a.ret = None) => a.free_list = free_list

\* An allocate returned none while blocks of lower orders were free.
C11_Witness ==
    /\ last.op = "allocate" /\ last.ret = None /\ ~panicked
    /\ last.index \in Orders
    /\ \E i \in Orders : i < last.index /\ Len(free_list[i]) >= 2

\* add_memory of one top-order block on a new allocator returns MAX_BLOCK_SIZE.
C12_AddReturnsMax ==
    last.op = "add_memory" =>
        /\ \E k \in 1 .. MaxBase : regions = {<<k * MAX_BLOCK_SIZE, MAX_BLOCK_SIZE>>}
        /\ last.ret = MAX_BLOCK_SIZE
        /\ total_size = MAX_BLOCK_SIZE

\* The allocate of MAX_BLOCK_SIZE bytes that follows add_memory returns the base.
C12_FirstSucceeds ==
    (last.op = "add_memory" /\ last'.op = "allocate" /\ last'.size = MaxLayout[1]) =>
        /\ ~panicked'
        /\ \A p \in regions : last'.ret = p[1]

\* The allocate of MAX_BLOCK_SIZE bytes that follows a successful one returns none.
C12_SecondFails ==
    (/\ last.op = "allocate" /\ last.size = MaxLayout[1] /\ last.ret # None
     /\ last'.op = "allocate" /\ last'.size = MaxLayout[1]) =>
        ~panicked' /\ last'.ret = None

(***************************************************************************)
(* C12. Max-block scenario: add_memory on a new allocator with a pool of   *)
(* exactly MAX_BLOCK_SIZE bytes on a multiple of MAX_BLOCK_SIZE returns    *)
(* MAX_BLOCK_SIZE; an allocate of MAX_BLOCK_SIZE bytes then returns the    *)
(* pool's base address, and a second one returns none.                     *)
(***************************************************************************)
C12_MaxBlockScenario ==
    /\ []C12_AddReturnsMax
    /\ [][C12_FirstSucceeds /\ C12_SecondFails]_vars

\* The whole pool is held as one block and a second request for it failed.
C12_Witness ==
    /\ ~panicked
    /\ last.op = "allocate" /\ last.size = MaxLayout[1] /\ last.ret = None
    /\ allocated = {[ptr |-> 3 * MAX_BLOCK_SIZE, size |-> MaxLayout[1], align |-> MaxLayout[2]]}
    /\ \A i \in Orders : IsTail(free_list[i])

\* An address and the layout it was returned for.
AlignedFor(ptr, size, align) ==
    LET block_size == LayoutSize(size, align)
    IN  /\ ptr % block_size = 0
        /\ ptr % align = 0
        /\ block_size >= size

(***************************************************************************)
(* C13. Alignment-correct results: every address that a successful         *)
(* allocate(size, alignment) returns is a multiple of block_size =         *)
(* max(MIN_BLOCK_SIZE, next_power_of_two(size), alignment), hence of the   *)
(* alignment, and the block holds at least size bytes. It is stated of the *)
(* blocks the callers hold and of what allocate would return next.         *)
(***************************************************************************)
C13_AlignedResults ==
    /\ \A b \in allocated : AlignedFor(b.ptr, b.size, b.align)
    /\ \A l \in Layouts :
           LET a == AllocateOp(free_list, l[1], l[2])
           IN  (~a.panic /\ a.ret # None) => AlignedFor(a.ret, l[1], l[2])

\* A block of the top order's alignment and a block of the second order split
\* off a pool that starts on an odd multiple of MIN_BLOCK_SIZE are held.
C13_Witness ==
    /\ last.op = "allocate" /\ last.ret # None
    /\ <<3 * MIN_BLOCK_SIZE, MAX_BLOCK_SIZE>> \in regions
    /\ \E b1 \in allocated : \E b2 \in allocated :
           /\ b1.align = MAX_BLOCK_SIZE
           /\ b2.size = MIN_BLOCK_SIZE + 1 /\ b2.ptr = 4 * MIN_BLOCK_SIZE

\* A step of add_memory on a pool that is too small.
C15_StepIsNoOp ==
    (last'.op = "add_memory" /\ \A p \in regions' \ regions : TooSmall(p)) =>
        /\ last'.ret = 0
        /\ ~panicked'
        /\ free_list' = free_list
        /\ total_size' = total_size

\* A step of add_memory on a pool of exactly MIN_BLOCK_SIZE aligned bytes.
C15_SmallestIsAdded ==
    \A p \in regions' \ regions :
        (last'.op = "add_memory" /\ p[1] % MIN_BLOCK_SIZE = 0 /\ p[2] = MIN_BLOCK_SIZE) =>
            /\ last'.ret = MIN_BLOCK_SIZE
            /\ ~panicked'
            /\ free_list' = [free_list EXCEPT ![0] = Push(@, p[1])]
            /\ total_size' = total_size + MIN_BLOCK_SIZE

(***************************************************************************)
(* C15. A region that is too small is a no-op: when the span between the   *)
(* start rounded up and the exclusive end rounded down to multiples of     *)
(* MIN_BLOCK_SIZE is shorter than MIN_BLOCK_SIZE (MIN_BLOCK_SIZE - 1 bytes *)
(* for one), add_memory returns 0 and leaves every free list as it was; a  *)
(* region of exactly MIN_BLOCK_SIZE aligned bytes returns MIN_BLOCK_SIZE.  *)
(***************************************************************************)
C15_TooSmallIsNoOp == [][C15_StepIsNoOp /\ C15_SmallestIsAdded]_vars

\* add_memory returned 0 for MIN_BLOCK_SIZE - 1 aligned bytes, registered
\* while blocks of several orders were free and a block was held.
C15_Witness ==
    /\ last.op = "add_memory" /\ last.ret = 0 /\ ~panicked
    /\ <<MIN_BLOCK_SIZE, MIN_BLOCK_SIZE - 1>> \in regions
    /\ allocated # {}
    /\ \A i \in Orders : i < TopOrder => ~IsTail(free_list[i])

\* add_memory returned 0 for a pool that ends below its rounded-up start.
ZeroForSpanBelowStart ==
    /\ last.op = "add_memory" /\ last.ret = 0
    /\ \E p \in regions : SpanEnd(p) < SpanStart(p)

\* The free blocks as <<address, order>>.
FreeBlocksOf(fl) == UNION {{<<a, i>> : a \in Nodes(fl[i])} : i \in Orders}
FreeBlocks == FreeBlocksOf(free_list)
BlockEnd(b) == b[1] + BlockSize(b[2])
\* The blocks of B that hold the byte at address x.
Holding(B, x) == {b \in B : b[1] <= x /\ x < BlockEnd(b)}

(***************************************************************************)
(* C16. add_memory tiles the whole aligned span: for every start address   *)
(* and length, with s the start rounded up and e the end rounded down to   *)
(* multiples of MIN_BLOCK_SIZE and e - s >= MIN_BLOCK_SIZE, add_memory     *)
(* returns e - s, and the blocks it inserts are pairwise disjoint,         *)
(* contiguous and cover [s, e) exactly; a pool that starts on a multiple   *)
(* of MIN_BLOCK_SIZE and is a multiple of MIN_BLOCK_SIZE long returns its  *)
(* length.                                                                 *)
(***************************************************************************)
C16_TilesAlignedSpan ==
    \A p \in regions :
        ~TooSmall(p) =>
            LET s == SpanStart(p)
                e == SpanEnd(p)
            IN  /\ ~panicked
                /\ last.ret = e - s
                /\ total_size = e - s
                /\ \A i \in Orders : Len(free_list[i]) = Cardinality(Nodes(free_list[i]))
                /\ \A b \in FreeBlocks : s <= b[1] /\ BlockEnd(b) <= e
                /\ \A k \in 0 .. ((e - s) \div MIN_BLOCK_SIZE) - 1 :
                       Cardinality(Holding(FreeBlocks, s + k * MIN_BLOCK_SIZE)) = 1
                /\ \A b \in FreeBlocks :
                       b[1] = s \/ \E c \in FreeBlocks : BlockEnd(c) = b[1]
                /\ (p[1] % MIN_BLOCK_SIZE = 0 /\ p[2] % MIN_BLOCK_SIZE = 0) =>
                       last.ret = p[2]

\* A pool that starts and ends off the multiples of MIN_BLOCK_SIZE was tiled
\* with one block of every order.
C16_Witness ==
    /\ last.op = "add_memory"
    /\ \E p \in regions : p[1] % MIN_BLOCK_SIZE # 0 /\ (p[1] + p[2]) % MIN_BLOCK_SIZE # 0
    /\ \A i \in Orders : Len(free_list[i]) = 1

\* [a, a + n) lies inside the aligned span of one pool passed to add_memory.
InOneSpan(a, n) ==
    \E p \in regions : SpanStart(p) <= a /\ a + n <= SpanEnd(p)
\* Every MIN_BLOCK_SIZE bytes of [a, a + n) lie inside the aligned span of a
\* pool passed to add_memory.
InSpans(a, n) ==
    \A k \in 0 .. (n \div MIN_BLOCK_SIZE) - 1 :
        InOneSpan(a + k * MIN_BLOCK_SIZE, MIN_BLOCK_SIZE)

\* The claim as stated: every free block and every held block lies entirely
\* inside the aligned span of some one region.
C17_InsideOneRegion ==
    /\ \A b \in FreeBlocks : InOneSpan(b[1], BlockSize(b[2]))
    /\ \A b \in allocated : InOneSpan(b.ptr, BlockSizeOf(b))

(***************************************************************************)
(* C17. Only registered memory is handed out: in every reachable state,    *)
(* every byte of every block in a free list and of every block returned by *)
(* allocate lies inside the MIN_BLOCK_SIZE-aligned span [round_up(start),  *)
(* round_down(end)) of a region passed to add_memory (a block merged from  *)
(* buddies of two adjacent regions lies in the two spans together); the    *)
(* bytes of a dropped head or tail remainder are part of no block.         *)
(***************************************************************************)
C17_OnlyRegisteredMemory ==
    /\ \A b \in FreeBlocks : InSpans(b[1], BlockSize(b[2]))
    /\ \A b \in allocated : InSpans(b.ptr, BlockSizeOf(b))

\* A pool with a dropped head and the pool right after it are registered, and
\* a deallocate has merged their blocks, which are buddies, into one.
C17_Witness ==
    /\ regions = {<<MIN_BLOCK_SIZE + 1, 2 * MIN_BLOCK_SIZE - 1>>,
                  <<3 * MIN_BLOCK_SIZE, MIN_BLOCK_SIZE>>}
    /\ last.op = "deallocate" /\ ~panicked
    /\ <<2 * MIN_BLOCK_SIZE, 1>> \in FreeBlocks

\* A step of add_memory: the blocks that were free stay in their lists, and
\* what is new in the lists lies inside the pool that was added.
C18_OnlyAdds ==
    last'.op = "add_memory" =>
        /\ ~panicked'
        /\ \A i \in Orders :
               /\ Nodes(free_list[i]) \subseteq Nodes(free_list'[i])
               /\ Len(free_list'[i]) - Len(free_list[i]) =
                      Cardinality(Nodes(free_list'[i]) \ Nodes(free_list[i]))
        /\ \A b \in FreeBlocksOf(free_list') \ FreeBlocksOf(free_list) :
               \A p \in regions' \ regions :
                   p[1] <= b[1] /\ BlockEnd(b) <= p[1] + p[2]
        /\ allocated' = allocated

\* A step of add_memory after an add_memory that returned 0.
C18_AfterZero ==
    (last.op = "add_memory" /\ last.ret = 0 /\ last'.op = "add_memory") =>
        \A p \in regions' \ regions :
            last'.ret = SpanEnd(p) - SpanStart(p) /\ last'.ret >= MIN_BLOCK_SIZE

(***************************************************************************)
(* C18. add_memory only adds: a call on a region disjoint from all earlier *)
(* regions leaves every block that was in a free list in the same list,    *)
(* inserts only blocks inside the new region, and a call that returned 0   *)
(* does not keep a later call from registering memory.                     *)
(***************************************************************************)
C18_AddMemoryOnlyAdds == [][C18_OnlyAdds /\ C18_AfterZero]_vars

\* A pool was added after a block of an earlier pool was split and handed out.
C18_Witness ==
    /\ last.op = "add_memory" /\ last.size = MIN_BLOCK_SIZE /\ last.ret = MIN_BLOCK_SIZE
    /\ TwoBuddyPool \in regions
    /\ allocated # {}
    /\ Len(free_list[0]) = 2

\* A pool was registered after an add_memory that returned 0.
AddedAfterZero ==
    /\ last.op = "add_memory" /\ last.ret > 0
    /\ <<1, MIN_BLOCK_SIZE - 2>> \in regions
    /\ last.size # MIN_BLOCK_SIZE - 2

SerialResult(c) ==
    IF c.op = "add_memory"
    THEN LET r == AddMemoryOp(c.snap, c.ptr, c.size)
         IN  [free_list |-> r.free_list, ret |-> r.added, panic |-> r.panic]
    ELSE IF c.op = "get_memory"
    THEN AllocateOp(c.snap, c.size, c.align)
    ELSE LET r == DeallocateOp(c.snap, c.ptr, c.size, c.align)
         IN  [free_list |-> r.free_list, ret |-> None, panic |-> r.panic]

\* At most one caller is between spin_lock and the drop of its guard, the lock
\* is held exactly then, and an operation that is about to return, or has
\* panicked, has done to the free lists what it does when it runs alone.
C19_OneAtATime ==
    /\ Cardinality(CallersInside) <= 1
    /\ lock <=> CallersInside # {}
    /\ \A t \in CallersInside :
           LET c == callers[t]
           IN  /\ (c.pc = "unlock" /\ ~panicked) =>
                      SerialResult(c) =
                          [free_list |-> free_list, ret |-> c.ret, panic |-> FALSE]
               /\ panicked =>
                      SerialResult(c).panic /\ SerialResult(c).free_list = free_list

\* A step that changes the free lists is a step of the caller that holds the
\* lock; a step that acquires the lock finds the free lists no call is in.
C19_OnlyHolderWrites ==
    /\ free_list' # free_list =>
           /\ lock
           /\ \E t \in Callers :
                  /\ CallersInside = {t}
                  /\ \A u \in Callers \ {t} : callers'[u] = callers[u]
    /\ \A t \in Callers :
           (callers[t].pc = "spin" /\ callers'[t].pc \in Inside) =>
               CallersInside = {} /\ callers'[t].snap = free_list

(***************************************************************************)
(* C19. Atomicity: with concurrent callers, each add_memory, allocate and  *)
(* deallocate runs its whole scan, split and pop, or scan, merge and push, *)
(* holding the one lock: every interleaving is equivalent to a sequential  *)
(* order of whole operations, and no caller sees the free lists in the     *)
(* middle of a split or merge cascade.                                     *)
(***************************************************************************)
C19_Atomicity ==
    /\ []C19_OneAtATime
    /\ [][C19_OnlyHolderWrites]_vars

\* A caller is in the middle of a split cascade and another waits for the lock.
C19_Witness ==
    \E t \in Callers : \E u \in Callers :
        /\ callers[t].pc = "split" /\ free_list # callers[t].snap
        /\ callers[u].pc = "spin" /\ callers[u].op = "return_memory"

\* A step in which a call returns.
Returns(t) == callers[t].pc = "unlock" /\ callers'[t].pc = "idle"

\* When no caller is inside a call the lock is free and try_lock succeeds.
C20_FreeBetweenCalls ==
    CallersInside = {} => (lock = FALSE /\ TryLock(lock).ok)

\* When a call returns, also with 0 or none, the lock is free after the step.
C20_FreeOnReturn ==
    \A t \in Callers : Returns(t) => (lock' = FALSE /\ TryLock(lock').ok)

(***************************************************************************)
(* C20. The lock is released on every exit path: after any add_memory      *)
(* (also when it returns 0), allocate (also when it returns none) or       *)
(* deallocate returns, the lock is free, so that a later operation by any  *)
(* caller can acquire it; no operation leaves the allocator locked.        *)
(***************************************************************************)
C20_LockReleased ==
    /\ []C20_FreeBetweenCalls
    /\ [][C20_FreeOnReturn]_vars

\* An allocate has returned none, the lock is free and another caller's
\* spin_lock can take it.
C20_Witness ==
    /\ last.op = "allocate" /\ last.ret = None
    /\ ~panicked /\ lock = FALSE
    /\ \E t \in Callers : callers[t].pc = "spin"

\* An add_memory has returned 0 and the lock is free.
ReturnedZero ==
    /\ last.op = "add_memory" /\ last.ret = 0
    /\ lock = FALSE
    /\ \E t \in Callers : callers[t].pc = "spin"

(***************************************************************************)
(* The headers an operation reads or writes. A list is its sentinel, an    *)
(* element of Allocator.free_list that lies outside every pool, followed   *)
(* by the nodes, each one the header at the first bytes of a free block.   *)
(***************************************************************************)
Sentinel(i) == 0 - (i + 2)
Sentinels == {Sentinel(i) : i \in Orders}

\* push writes the node, the old first node's prev, and self.next.
PushTouches(head, list, node) ==
    {head, node} \cup (IF IsTail(list) THEN {} ELSE {Head(list)})

\* pop_next reads self.next, and when there is a node reads its next, writes
\* the prev of the node after it, and resets the node.
PopNextTouches(head, list) ==
    IF IsTail(list) THEN {head}
    ELSE {head, list[1]} \cup (IF Len(list) > 1 THEN {list[2]} ELSE {})

\* pop writes the next of the header before the node, the prev of the node
\* after it, and resets the node.
PopTouches(head, list, node) ==
    LET i == CHOOSE k \in 1 .. Len(list) : list[k] = node
    IN  {node, IF i = 1 THEN head ELSE list[i - 1]}
            \cup (IF i < Len(list) THEN {list[i + 1]} ELSE {})

\* Iter::next reads the next of every header it yields: the iteration of
\* deallocate goes on until it has yielded the buddy, or to the tail.
IterTouches(head, list, buddy) ==
    LET stop == IF buddy \in Nodes(list)
                THEN CHOOSE k \in 1 .. Len(list) : list[k] = buddy
                ELSE Len(list)
    IN  {head} \cup {list[k] : k \in 1 .. stop}

RECURSIVE AddLoopTouches(_, _, _)
AddLoopTouches(fl, start, end) ==
    IF start + MIN_BLOCK_SIZE <= end
    THEN LET size == AddBlockSize(start, end)
             order == TrailingZeros(size) - BASE_ORDER
         IN  IF order \notin Orders THEN {}
             ELSE PushTouches(Sentinel(order), fl[order], start)
                      \cup AddLoopTouches([fl EXCEPT ![order] = Push(@, start)],
                                          start + size, end)
    ELSE {}

AddMemoryTouches(fl, pool_start, pool_len) ==
    AddLoopTouches(fl, AlignDown(pool_start + MIN_BLOCK_SIZE - 1),
                   AlignDown(pool_start + pool_len))

SplitBlockTouches(fl, index) ==
    LET p == PopNext(fl[index])
        block_size == Shl1(index + BASE_ORDER - 1)
        buddy == p.node + block_size
    IN  PopNextTouches(Sentinel(index), fl[index])
            \cup (IF p.node = None THEN {}
                  ELSE PushTouches(Sentinel(index - 1), fl[index - 1], buddy)
                           \cup PushTouches(Sentinel(index - 1),
                                            Push(fl[index - 1], buddy), p.node))

RECURSIVE SplitDownTouches(_, _, _)
SplitDownTouches(fl, j, index) ==
    IF j <= index THEN {}
    ELSE SplitBlockTouches(fl, j)
             \cup SplitDownTouches(SplitBlock(fl, j), j - 1, index)

AllocateTouches(fl, size, align) ==
    LET index == LayoutIndex(size, align)
        avail == Available(fl, index)
        i == IF avail = {} THEN ORDERS - 1 ELSE SmallestOf(avail)
        split == IF avail = {} THEN fl ELSE SplitDown(fl, i, index)
    IN  {Sentinel(k) : k \in index .. i}
            \cup (IF avail = {} THEN {} ELSE SplitDownTouches(fl, i, index))
            \cup (IF index \notin Orders THEN {}
                  ELSE PopNextTouches(Sentinel(index), split[index]))

RECURSIVE MergeLoopTouches(_, _, _)
MergeLoopTouches(fl, block, index) ==
    IF index \notin Orders THEN {}
    ELSE LET buddy == XorBit(block, Shl1(index + BASE_ORDER))
         IN  IterTouches(Sentinel(index), fl[index], buddy)
                 \cup (IF buddy \in Nodes(fl[index])
                       THEN PopTouches(Sentinel(index), fl[index], buddy)
                                \cup MergeLoopTouches(
                                         [fl EXCEPT ![index] = Pop(@, buddy)],
                                         Min(block, buddy), index + 1)
                       ELSE {})

DeallocateTouches(fl, ptr, size, align) ==
    LET m == MergeLoop(fl, ptr, LayoutIndex(size, align))
    IN  MergeLoopTouches(fl, ptr, LayoutIndex(size, align))
            \cup (IF m.index \notin Orders THEN {}
                  ELSE PushTouches(Sentinel(m.index), m.free_list[m.index], m.block))

\* The headers the step from this state to the next one reads or writes.
Touched ==
    CASE last'.op = "add_memory" ->
             UNION {AddMemoryTouches(free_list, p[1], p[2]) : p \in regions' \ regions}
      [] last'.op = "allocate" ->
             AllocateTouches(free_list, last'.size, last'.align)
      [] last'.op = "deallocate" ->
             UNION {DeallocateTouches(free_list, b.ptr, b.size, b.align) :
                    b \in allocated \ allocated'}
      [] OTHER -> {}

\* The bytes of the block the call registers or frees: the aligned span of
\* the pool, the block given back; and the bytes of the blocks that are free
\* and that are held when the call starts.
OwnRanges ==
    {<<SpanStart(p), SpanEnd(p)>> : p \in regions' \ regions}
        \cup {<<b.ptr, b.ptr + LayoutSize(b.size, b.align)>> :
                  b \in allocated \ allocated'}
HeldRanges ==
    {<<b.ptr, b.ptr + LayoutSize(b.size, b.align)>> : b \in allocated \cap allocated'}
FreeRanges == {<<b[1], BlockEnd(b)>> : b \in FreeBlocks}
Within(n, ranges) == \E r \in ranges : r[1] <= n /\ n < r[2]

(* C21. Every header an add_memory, allocate or deallocate reads or writes *)
(* is a sentinel, or lies in a block that is free when the call starts, or *)
(* in the block the call registers or frees; none lies in a block that     *)
(* another caller holds.                                                   *)
C21_Step ==
    \A n \in Touched :
        /\ \/ n \in Sentinels
           \/ Within(n, FreeRanges)
           \/ Within(n, OwnRanges)
        /\ ~Within(n, HeldRanges)
C21_NoWritesIntoAllocated == [][C21_Step]_vars
\* A deallocate has found the buddy behind another free block, merged, and a
\* block is still held.
C21_Witness ==
    /\ last.op = "deallocate"
    /\ last.index > LayoutIndex(last.size, last.align)
    /\ allocated # {}
    /\ ~panicked

(***************************************************************************)
(* mutex/src/lib.rs on its own: threads call try_lock and spin_lock on one *)
(* Mutex and drop the guards they got, in any interleaving. A thread may   *)
(* call try_lock while it holds a guard, as test_try_lock does. `last` is  *)
(* the last call that returned: ret is 1 for a guard and None for none,    *)
(* index is the thread.                                                    *)
(***************************************************************************)
allocVars ==
    <<free_list, total_size, allocated, regions, panicked, callers, calls>>
Guards == {t \in Threads : threads[t].guards > 0}
Spinning == {t \in Threads : threads[t].pc = "spin"}
MutexCall(op, t, ret) ==
    [op |-> op, size |-> 0, align |-> 0, ret |-> ret, index |-> t]

\* Mutex::try_lock
ThreadTryLock(t) ==
    /\ threads[t].pc = "idle"
    /\ LET r == TryLock(lock)
       IN  /\ lock' = r.lock
           /\ threads' = [threads EXCEPT ![t].guards = IF r.ok THEN @ + 1 ELSE @]
           /\ last' = MutexCall("try_lock", t, IF r.ok THEN 1 ELSE None)
    /\ UNCHANGED <<allocVars, buffer, hasher, header, iter>>

\* The thread calls Mutex::spin_lock.
ThreadSpinLock(t) ==
    /\ threads[t].pc = "idle"
    /\ threads' = [threads EXCEPT ![t].pc = "spin"]
    /\ UNCHANGED <<allocVars, buffer, hasher, lock, last, header, iter>>

\* One turn of the loop of spin_lock: it breaks with the guard when try_lock
\* returns one, and goes round when it returns none.
ThreadSpin(t) ==
    /\ threads[t].pc = "spin"
    /\ LET r == TryLock(lock)
       IN  IF r.ok
           THEN /\ lock' = r.lock
                /\ threads' = [threads EXCEPT ![t] =
                                   [pc |-> "idle", guards |-> @.guards + 1]]
                /\ last' = MutexCall("spin_lock", t, 1)
           ELSE UNCHANGED <<lock, threads, last>>
    /\ UNCHANGED <<allocVars, buffer, hasher, header, iter>>

\* MutexGuard::drop, by a thread that is not inside spin_lock.
ThreadDrop(t) ==
    /\ threads[t].pc = "idle"
    /\ threads[t].guards > 0
    /\ lock' = GuardDrop(lock)
    /\ threads' = [threads EXCEPT ![t].guards = @ - 1]
    /\ last' = MutexCall("drop", t, None)
    /\ UNCHANGED <<allocVars, buffer, hasher, header, iter>>

MutexNext ==
    \E t \in Threads :
        \/ ThreadTryLock(t)
        \/ ThreadSpinLock(t)
        \/ ThreadSpin(t)
        \/ ThreadDrop(t)

MutexSpec == Init /\ [][MutexNext]_vars

(* C22. At most one MutexGuard of the Mutex exists at any time, and a      *)
(* try_lock returns a guard when no guard exists and none when one does.   *)
C22_OneGuard == Cardinality(Guards) <= 1 /\ \A t \in Guards : threads[t].guards = 1
C22_TryLockStep ==
    \A t \in Threads :
        ThreadTryLock(t) => (last'.ret # None <=> Guards = {})
C22_MutualExclusion == []C22_OneGuard /\ [][C22_TryLockStep]_vars
\* A try_lock has returned none while another thread holds the guard and a
\* third spins.
C22_Witness ==
    /\ last.op = "try_lock" /\ last.ret = None
    /\ Guards # {} /\ last.index \notin Guards
    /\ Spinning # {}

(* C23. Dropping the guard unlocks the mutex, the try_lock that follows    *)
(* the drop returns a guard, and the mutex is never unlocked while a guard *)
(* exists.                                                                 *)
C23_LockedWhileGuarded == Guards # {} => lock = TRUE
C23_DropStep ==
    \A t \in Threads : ThreadDrop(t) => lock' = FALSE
C23_NextTryLockStep ==
    \A t \in Threads :
        last.op = "drop" /\ ThreadTryLock(t) => last'.ret # None
C23_DropReleases ==
    /\ []C23_LockedWhileGuarded
    /\ [][C23_DropStep /\ C23_NextTryLockStep]_vars
\* The guard has been dropped while another thread spins: the mutex is
\* unlocked and no guard is left.
C23_Witness ==
    /\ last.op = "drop"
    /\ Guards = {}
    /\ Spinning # {}

(***************************************************************************)
(* The threads under a fair scheduler: a thread inside spin_lock goes on   *)
(* taking turns of its loop, so that it takes the lock if the lock stays   *)
(* free, and a thread that holds the guard drops it in the end. No thread  *)
(* calls spin_lock while it holds the guard.                               *)
(***************************************************************************)
FairSpinLock(t) == threads[t].guards = 0 /\ ThreadSpinLock(t)

FairMutexNext ==
    \E t \in Threads :
        \/ ThreadTryLock(t)
        \/ FairSpinLock(t)
        \/ ThreadSpin(t)
        \/ ThreadDrop(t)

FairMutexSpec ==
    /\ Init
    /\ [][FairMutexNext]_vars
    /\ \A t \in Threads : WF_vars(ThreadSpin(t)) /\ WF_vars(ThreadDrop(t))

Returned(t) == threads[t].pc = "idle" /\ threads[t].guards > 0

(* C24. A spin_lock call returns only with the lock held by its caller,    *)
(* and every thread that calls spin_lock returns in the end.               *)
C24_EveryCallReturns ==
    \A t \in Threads : (threads[t].pc = "spin") ~> Returned(t)

(* C24, amended. A spin_lock call returns only with the lock held by its   *)
(* caller, and a thread that calls spin_lock returns in the end if it      *)
(* takes a turn of its loop at a moment the lock is free whenever such     *)
(* moments keep coming.                                                    *)
C24_ReturnStep ==
    \A t \in Threads :
        ThreadSpin(t) /\ threads'[t].pc = "idle" =>
            lock' = TRUE /\ Guards' = {t} /\ threads'[t].guards = 1
C24_ReturnsHolding == [][C24_ReturnStep]_vars
C24_ReturnsIfNotOvertaken ==
    (\A t \in Threads : SF_vars(ThreadSpin(t))) => C24_EveryCallReturns
C24_SpinLock == C24_ReturnsHolding /\ C24_ReturnsIfNotOvertaken
\* A spin_lock has returned the guard while another thread still spins.
C24_Witness ==
    /\ last.op = "spin_lock"
    /\ Returned(last.index)
    /\ Spinning # {}

(***************************************************************************)
(* header.rs on the headers themselves: each operation assigns the links   *)
(* in the order of its statements. hd is the memory, node -> prev, next.   *)
(***************************************************************************)
\* push that leaves the prev of the old first node as it was.
HeaderPushKeepsPrev(hd, self, node) ==
    LET h1 == [hd EXCEPT ![node].next = hd[self].next]
        h2 == [h1 EXCEPT ![node].prev = self]
    IN  [h2 EXCEPT ![self].next = node]

\* BlockHeader::push
HeaderPush(hd, self, node) ==
    LET h1 == [hd EXCEPT ![node].next = hd[self].next]
        h2 == [h1 EXCEPT ![node].prev = self]
        h3 == IF h2[self].next # null
              THEN [h2 EXCEPT ![h2[self].next].prev = node] ELSE h2
    IN  [h3 EXCEPT ![self].next = node]

\* pop_next that leaves the links of the node it returns as they were.
HeaderPopNextKeepsLinks(hd, self) ==
    IF hd[self].next = null THEN [node |-> None, header |-> hd]
    ELSE LET node == hd[self].next
             h1 == [hd EXCEPT ![self].next = hd[node].next]
             h2 == IF h1[self].next # null
                   THEN [h1 EXCEPT ![h1[self].next].prev = self] ELSE h1
         IN  [node |-> node, header |-> h2]

\* BlockHeader::pop_next
HeaderPopNext(hd, self) ==
    IF hd[self].next = null THEN [node |-> None, header |-> hd]
    ELSE LET node == hd[self].next
             h1 == [hd EXCEPT ![self].next = hd[node].next]
             h2 == IF h1[self].next # null
                   THEN [h1 EXCEPT ![h1[self].next].prev = self] ELSE h1
         IN  [node |-> node, header |-> [h2 EXCEPT ![node] = BlockHeader]]

\* pop that does not link the node after self back to the header before it.
HeaderPopOneWay(hd, self) ==
    LET h1 == IF hd[self].prev # null
              THEN [hd EXCEPT ![hd[self].prev].next = hd[self].next] ELSE hd
    IN  [node |-> self, header |-> [h1 EXCEPT ![self] = BlockHeader]]

\* BlockHeader::pop
HeaderPop(hd, self) ==
    LET h1 == IF hd[self].prev # null
              THEN [hd EXCEPT ![hd[self].prev].next = hd[self].next] ELSE hd
        h2 == IF h1[self].next # null
              THEN [h1 EXCEPT ![h1[self].next].prev = h1[self].prev] ELSE h1
    IN  [node |-> self, header |-> [h2 EXCEPT ![self] = BlockHeader]]

\* An iterator that ends at the tail without yielding it.
IterNextStopsAtTail(hd, it) ==
    IF it.node = null \/ hd[it.node].next = null
    THEN [ret |-> None, iter |-> [it EXCEPT !.node = null]]
    ELSE [ret |-> it.node,
          iter |-> [it EXCEPT !.node = hd[it.node].next,
                              !.yielded = Append(@, it.node)]]

\* Iter::next: the next header is read before the node is yielded.
IterNext(hd, it) ==
    IF it.node = null THEN [ret |-> None, iter |-> it]
    ELSE [ret |-> it.node,
          iter |-> [it EXCEPT !.node = hd[it.node].next,
                              !.yielded = Append(@, it.node)]]

RECURSIVE ChainFrom(_, _, _)
\* The headers that follow n by next, as far as fuel goes.
ChainFrom(hd, n, fuel) ==
    IF n = null \/ fuel = 0 THEN << >>
    ELSE <<n>> \o ChainFrom(hd, hd[n].next, fuel - 1)
\* The list after the header h.
Chain(hd, h) == ChainFrom(hd, hd[h].next, NNodes)

RECURSIVE HeadFrom(_, _, _)
HeadFrom(hd, n, fuel) ==
    IF hd[n].prev = null \/ fuel = 0 THEN n ELSE HeadFrom(hd, hd[n].prev, fuel - 1)
\* The head of the list the header n is in.
HeadOf(hd, n) == HeadFrom(hd, n, NNodes)

Detached(hd, n) == hd[n] = BlockHeader
\* A call on the header self: size is how many headers followed self when it
\* was made.
ListCall(op, self, ret) ==
    [op |-> op, size |-> Len(Chain(header, self)), align |-> 0, ret |-> ret,
     index |-> self]

(***************************************************************************)
(* The uses of a list (test_head_list, test_iter, lib.rs): a detached      *)
(* header is pushed after any header, pop_next is called on any header,    *)
(* pop on any header that has one before it, and a list is iterated from   *)
(* any header, either leaving it alone or popping every header yielded     *)
(* after the first, as the loop over h.iter_mut().skip(1) of test_iter     *)
(* does. While an iterator is in use nothing else changes the list.        *)
(***************************************************************************)
ListPush(h, n) ==
    /\ iter = NoIter
    /\ n # h
    /\ Detached(header, n)
    /\ header' = HeaderPush(header, h, n)
    /\ last' = ListCall("push", h, n)
    /\ UNCHANGED <<allocVars, buffer, hasher, lock, threads, iter>>

ListPopNext(h) ==
    /\ iter = NoIter
    /\ LET r == HeaderPopNext(header, h)
       IN  /\ header' = r.header
           /\ last' = ListCall("pop_next", h, r.node)
    /\ UNCHANGED <<allocVars, buffer, hasher, lock, threads, iter>>

ListPop(n) ==
    /\ iter = NoIter
    /\ header[n].prev # null
    /\ LET r == HeaderPop(header, n)
       IN  /\ header' = r.header
           /\ last' = ListCall("pop", n, r.node)
    /\ UNCHANGED <<allocVars, buffer, hasher, lock, threads, iter>>

\* iter_mut, by a loop that pops or one that does not: a new iterator
\* replaces the one in use.
ListIterMut(h, popping) ==
    /\ iter' = [node |-> h, from |-> h, yielded |-> << >>,
                chain |-> Chain(header, h), popping |-> popping]
    /\ last' = ListCall("iter_mut", h, None)
    /\ UNCHANGED <<allocVars, buffer, hasher, lock, threads, header>>

\* One call of next, and the body of the loop on what it yields.
ListIterNext ==
    /\ iter # NoIter
    /\ LET r == IterNext(header, iter)
       IN  /\ iter' = r.iter
           /\ last' = ListCall("next", iter.from, r.ret)
           /\ header' = IF iter.popping /\ r.ret # None /\ r.ret # iter.from
                        THEN HeaderPop(header, r.ret).header
                        ELSE header
    /\ UNCHANGED <<allocVars, buffer, hasher, lock, threads>>

\* The iterator goes out of use.
ListIterDrop ==
    /\ iter # NoIter
    /\ iter' = NoIter
    /\ last' = ListCall("drop", iter.from, None)
    /\ UNCHANGED <<allocVars, buffer, hasher, lock, threads, header>>

ListNext ==
    \/ \E h, n \in ListNodes : ListPush(h, n)
    \/ \E h \in ListNodes : ListPopNext(h)
    \/ \E n \in ListNodes : ListPop(n)
    \/ \E h \in ListNodes, popping \in BOOLEAN : ListIterMut(h, popping)
    \/ ListIterNext
    \/ ListIterDrop

ListSpec == Init /\ [][ListNext]_vars

Others(S) == ListNodes \ (S \cup {null})
Kept(S) == \A m \in Others(S) : header'[m] = header[m]

(* C25. h.push(n) makes n the node after h (h.next = n, n.prev = h), makes *)
(* the node that followed h follow n with its prev pointing to n, and      *)
(* leaves h.prev and the links of every other header as they were.         *)
C25_PushStep ==
    \A h, n \in ListNodes :
        ListPush(h, n) =>
            LET s == header[h].next
            IN  /\ header'[h] = [prev |-> header[h].prev, next |-> n]
                /\ header'[n] = [prev |-> h, next |-> s]
                /\ s # null => header'[s] = [prev |-> n, next |-> header[s].next]
                /\ Kept({h, n, s})
C25_Push == [][C25_PushStep]_vars
\* A node has been pushed between a header and the node that followed it.
C25_Witness ==
    /\ last.op = "push"
    /\ last.size > 0
    /\ header[last.ret].next # null

(* C26. h.pop_next() returns none and changes nothing when h is the tail;  *)
(* otherwise it returns the node s after h, links h and the node that      *)
(* followed s to each other, and leaves s with both links null. The list   *)
(* after h loses its first node, so repeated calls return the nodes in     *)
(* list order until none.                                                  *)
C26_PopNextStep ==
    \A h \in ListNodes :
        ListPopNext(h) =>
            LET s == header[h].next
                u == IF s = null THEN null ELSE header[s].next
            IN  IF s = null
                THEN last'.ret = None /\ header' = header
                ELSE /\ last'.ret = s
                     /\ s = Head(Chain(header, h))
                     /\ Chain(header', h) = Tail(Chain(header, h))
                     /\ header'[h] = [prev |-> header[h].prev, next |-> u]
                     /\ u # null => header'[u] = [prev |-> h, next |-> header[u].next]
                     /\ header'[s] = BlockHeader
                     /\ Kept({h, s, u})
C26_PopNext == [][C26_PopNextStep]_vars
\* pop_next has returned the first of two nodes, and the second one follows
\* the header now.
C26_Witness ==
    /\ last.op = "pop_next"
    /\ last.ret # None
    /\ last.size > 1
    /\ header[last.index].next # null

(* C27. n.pop() returns n, links the header before n and the node after n  *)
(* to each other, leaves n with both links null, and leaves the other      *)
(* nodes of the list in the list and in their order.                       *)
C27_PopStep ==
    \A n \in ListNodes :
        ListPop(n) =>
            LET p == header[n].prev
                s == header[n].next
                h == HeadOf(header, n)
            IN  /\ last'.ret = n
                /\ header'[p] = [prev |-> header[p].prev, next |-> s]
                /\ s # null => header'[s] = [prev |-> p, next |-> header[s].next]
                /\ header'[n] = BlockHeader
                /\ Kept({p, n, s})
                /\ Chain(header', h) = SelectSeq(Chain(header, h), LAMBDA x : x # n)
C27_Pop == [][C27_PopStep]_vars
\* A node has been popped from between two others.
C27_Witness ==
    /\ last.op = "pop"
    /\ last.size > 0
    /\ \E h \in ListNodes : Len(Chain(header, h)) > 0

IsPrefix(a, b) == Len(a) <= Len(b) /\ SubSeq(b, 1, Len(a)) = a
IterDone == iter # NoIter /\ last.op = "next" /\ last.ret = None

(* C28. An iteration from h yields h, then every node after it once and in *)
(* order up to the tail, then none, and a new iteration starts from h      *)
(* again; when the loop pops every node it is given after h, the iteration *)
(* still yields every node, and leaves every node detached and h with no   *)
(* node after it: a lone detached head when h is the head of its list.     *)
C28_InOrder ==
    iter # NoIter =>
        /\ IsPrefix(iter.yielded, <<iter.from>> \o iter.chain)
        /\ IterDone => iter.yielded = <<iter.from>> \o iter.chain
        /\ IterDone /\ iter.popping =>
               /\ header[iter.from].next = null
               /\ \A n \in Nodes(iter.chain) : Detached(header, n)
C28_Step ==
    /\ \A h \in ListNodes, popping \in BOOLEAN :
           ListIterMut(h, popping) =>
               iter'.node = h /\ iter'.yielded = << >> /\ iter'.chain = Chain(header, h)
    /\ IterDone /\ ListIterNext => last'.ret = None /\ iter' = iter
C28_Iteration == []C28_InOrder /\ [][C28_Step]_vars
\* An iteration from the head that popped the nodes it was given has ended
\* after two nodes.
C28_Witness ==
    /\ IterDone
    /\ iter.popping
    /\ Len(iter.chain) >= 2
    /\ Detached(header, iter.from)

\* The powers of two up to the addresses add_memory is called with.
PowersOfTwo == {Shl1(k) : k \in 0 .. (BASE_ORDER + ORDERS + 2)}
Largest(S) == CHOOSE p \in S : \A q \in S : q <= p
LargestDividing(s) == Largest({p \in PowersOfTwo : s % p = 0})
LargestAtMost(d) == Largest({p \in PowersOfTwo : p <= d})
Log2(size) == CHOOSE k \in 0 .. (BASE_ORDER + ORDERS + 2) : Shl1(k) = size

\* The block the claim has add_memory choose at the address s before the end e.
ChosenSize(s, e) ==
    Min(Min(MAX_BLOCK_SIZE, LargestDividing(s)), LargestAtMost(e - s))

RECURSIVE ChosenBlocks(_, _)
\* The blocks <<address, order>> so chosen from s up to e.
ChosenBlocks(s, e) ==
    IF e - s < MIN_BLOCK_SIZE THEN {}
    ELSE {<<s, Log2(ChosenSize(s, e)) - BASE_ORDER>>}
             \cup ChosenBlocks(s + ChosenSize(s, e), e)

(* C29. Every turn of the loop of add_memory, at the address s before the  *)
(* end e, registers at s a block of min(MAX_BLOCK_SIZE, the largest power  *)
(* of two dividing s, the largest power of two not above e - s) bytes, in  *)
(* the list of order log2(size) - BASE_ORDER; a span of                    *)
(* MIN_BLOCK_SIZE * (2^ORDERS - 1) bytes on a multiple of MAX_BLOCK_SIZE   *)
(* gives exactly one block in each order.                                  *)
C29_BlockChoice ==
    \A p \in regions :
        LET s == SpanStart(p)
            e == SpanEnd(p)
        IN  /\ FreeBlocks = ChosenBlocks(s, e)
            /\ \A i \in Orders : Len(free_list[i]) = Cardinality(Nodes(free_list[i]))
            /\ s % MAX_BLOCK_SIZE = 0 /\ e - s = MIN_BLOCK_SIZE * (Shl1(ORDERS) - 1)
                   => \A i \in Orders : Len(free_list[i]) = 1
\* A pool has been registered whose first block is limited by the alignment
\* of its address, a later one by MAX_BLOCK_SIZE and the last by what is left.
C29_Witness ==
    /\ last.op = "add_memory"
    /\ \E p \in regions :
           /\ SpanStart(p) % MAX_BLOCK_SIZE # 0
           /\ SpanStart(p) + MAX_BLOCK_SIZE < SpanEnd(p)
    /\ free_list[TopOrder] # << >>
    /\ Cardinality(FreeBlocks) >= 3

(* C30. A successful allocate, with k the lowest order not below the       *)
(* target whose list is not empty, takes one block A from the list of      *)
(* order k, adds to the list of every order j from the target up to k - 1  *)
(* exactly the upper half A + (MIN_BLOCK_SIZE << j), returns A, and leaves *)
(* the lists of the orders below the target and above k as they were.      *)
C30_AllocateStep ==
    last'.op = "allocate" /\ last'.ret # None =>
        LET target == last'.index
            k == SmallestOf(Available(free_list, target))
            A == last'.ret
        IN  /\ A \in Nodes(free_list[k])
            /\ \A j \in Orders :
                   /\ j < target \/ j > k => free_list'[j] = free_list[j]
                   /\ j = k =>
                          /\ Nodes(free_list'[j]) = Nodes(free_list[j]) \ {A}
                          /\ Len(free_list'[j]) = Len(free_list[j]) - 1
                   /\ target <= j /\ j < k =>
                          /\ Nodes(free_list'[j]) =
                                 Nodes(free_list[j]) \cup {A + BlockSize(j)}
                          /\ Len(free_list'[j]) = Len(free_list[j]) + 1
C30_NetEffect == [][C30_AllocateStep]_vars
\* An allocate has split a block twice: the upper halves of both orders are
\* free next to the block it returned, and another block is held.
C30_Witness ==
    /\ last.op = "allocate"
    /\ last.ret # None
    /\ last.index = 0
    /\ last.ret + BlockSize(0) \in Nodes(free_list[0])
    /\ last.ret + BlockSize(1) \in Nodes(free_list[1])
    /\ Cardinality(allocated) > 1

(* C31. When allocate splits a block at the address A the block it returns *)
(* is at A; so, from one free top-order block at the base B, the n-th      *)
(* allocation of the smallest size in a row, n counted from 0, returns     *)
(* B + n * MIN_BLOCK_SIZE.                                                 *)
C31_SplitStep ==
    last'.op = "allocate" /\ last'.ret # None =>
        LET k == SmallestOf(Available(free_list, last'.index))
        IN  last'.ret = Head(free_list[k])
C31_NthBlock ==
    last.op = "allocate" /\ last.size = SmallLayout[1] /\ last.ret # None =>
        \A p \in regions :
            last.ret = p[1] + (Cardinality(allocated) - 1) * MIN_BLOCK_SIZE
C31_LowestFirst == []C31_NthBlock /\ [][C31_SplitStep]_vars
\* The last of the 2^(ORDERS - 1) smallest blocks of the pool has been returned.
C31_Witness ==
    /\ last.op = "allocate"
    /\ last.ret # None
    /\ Cardinality(allocated) = Shl1(ORDERS - 1)
    /\ \E p \in regions : last.ret = p[1] + MAX_BLOCK_SIZE - MIN_BLOCK_SIZE

\* The block of the order j that holds the address a: a with the bits below
\* BASE_ORDER + j cleared; and its buddy.
MergedAt(a, j) == a - (a % BlockSize(j))
BuddyAt(a, j) == XorBit(MergedAt(a, j), BlockSize(j))
\* The first order from i on whose list does not hold the buddy.
StopOrder(fl, a, i) ==
    CHOOSE m \in i .. ORDERS :
        /\ m \in Orders => BuddyAt(a, m) \notin Nodes(fl[m])
        /\ \A j \in i .. (m - 1) : BuddyAt(a, j) \in Nodes(fl[j])

(* C32. A deallocate of the block at the address a and of the order i      *)
(* removes from the free lists exactly the buddies of the merged blocks of *)
(* the orders i to m - 1, where m is the first order whose list does not   *)
(* hold the buddy, inserts one block at the order m, at a with the bits    *)
(* BASE_ORDER + i to BASE_ORDER + m - 1 cleared, and leaves the lists of   *)
(* the orders below i and above m as they were.                            *)
C32_MergeStep ==
    last'.op = "deallocate" =>
        \A b \in allocated \ allocated' :
            LET a == b.ptr
                i == LayoutIndex(b.size, b.align)
                m == StopOrder(free_list, a, i)
            IN  /\ ~panicked'
                /\ m \in Orders
                /\ \A j \in Orders :
                       /\ j < i \/ j > m => free_list'[j] = free_list[j]
                       /\ i <= j /\ j < m =>
                              /\ Nodes(free_list'[j]) =
                                     Nodes(free_list[j]) \ {BuddyAt(a, j)}
                              /\ Len(free_list'[j]) = Len(free_list[j]) - 1
                       /\ j = m =>
                              /\ Nodes(free_list'[j]) =
                                     Nodes(free_list[j]) \cup {MergedAt(a, m)}
                              /\ Len(free_list'[j]) = Len(free_list[j]) + 1
C32_MergeRule == [][C32_MergeStep]_vars

(***************************************************************************)
(* A BlockBuffer on its own (test_buffer_content, test_processor): it is   *)
(* fed slices of any length, MaxFed bytes in all.                          *)
(***************************************************************************)
RECURSIVE Flatten(_)
Flatten(blocks) ==
    IF blocks = << >> THEN << >> ELSE Head(blocks) \o Flatten(Tail(blocks))

otherVars ==
    <<free_list, total_size, allocated, regions, panicked, callers, calls,
      lock, threads, header, iter, last>>

BufferProcessData(data) ==
    /\ Len(buffer.fed) + Len(data) <= MaxFed
    /\ LET r == ProcessData(buffer.buf, buffer.pos, data)
       IN  buffer' = [buf |-> r.buf, pos |-> r.pos,
                      fed |-> buffer.fed \o data,
                      handed |-> buffer.handed \o r.blocks,
                      calls |-> r.calls, len |-> Len(data)]
    /\ UNCHANGED <<otherVars, hasher>>

BufferNext == \E data \in Slices(MaxFed) : BufferProcessData(data)

BufferSpec == Init /\ [][BufferNext]_vars

\* BlockBuffer::get_remain
GetRemain == BLOCK_SIZE - buffer.pos

(* C33. The blocks handed to the processor, in the order of the calls,     *)
(* followed by buf[..pos], are the input slices one after the other; the   *)
(* processor receives whole blocks of BLOCK_SIZE bytes only, and a call    *)
(* that completes no block does not invoke it.                             *)
C33_Stream ==
    /\ Flatten(buffer.handed) \o SubSeq(buffer.buf, 1, buffer.pos) = buffer.fed
    /\ \A i \in 1 .. Len(buffer.handed) : Len(buffer.handed[i]) = BLOCK_SIZE
C33_Step == buffer'.calls > 0 => buffer.pos + buffer'.len >= BLOCK_SIZE
C33_StreamPreserved == []C33_Stream /\ [][C33_Step]_vars
\* One call has completed the block in buf, handed on a whole block of its
\* slice as well, and left bytes in buf.
C33_Witness ==
    /\ buffer.calls = 2
    /\ buffer.pos > 0
    /\ buffer.len < Len(buffer.fed)

(* C34. pos is the number of bytes fed modulo BLOCK_SIZE, so pos is below  *)
(* BLOCK_SIZE and get_remain() is at least 1, and every byte of buf from   *)
(* pos on is zero.                                                         *)
C34_PosAndPadding ==
    /\ buffer.pos = Len(buffer.fed) % BLOCK_SIZE
    /\ buffer.pos < BLOCK_SIZE
    /\ GetRemain >= 1
    /\ \A k \in (buffer.pos + 1) .. BLOCK_SIZE : buffer.buf[k] = 0
\* A call has completed the block in buf with non-zero bytes and left fewer
\* bytes in buf than it held before.
C34_Witness ==
    /\ buffer.calls = 1
    /\ buffer.pos > 0
    /\ buffer.pos < BLOCK_SIZE - 1
    /\ Len(buffer.handed) = 1
    /\ \A k \in 1 .. BLOCK_SIZE : buffer.handed[1][k] = 255

(***************************************************************************)
(* A Hasher in use: it is updated with slices, MaxFed bytes in all, and    *)
(* its digest is asked for into buffers of every length up to one byte     *)
(* more than the core's digest. digest_into consumes the hasher, and a new *)
(* one is made after it.                                                   *)
(***************************************************************************)
OutBuffers == {[k \in 1 .. n |-> Filler] : n \in 0 .. (CORE_DIGEST_SIZE + 1)}

\* Hasher::new, after the last one was consumed.
HasherNew ==
    /\ ~hasher.alive
    /\ hasher' = NewHasher
    /\ UNCHANGED <<otherVars, buffer>>

\* Hasher::update_in_place
HasherUpdate(data) ==
    /\ hasher.alive
    /\ hasher.core.msg_len + Len(data) <= MaxFed
    /\ hasher' = [hasher EXCEPT !.core = Compress(@, data), !.op = "update",
                                !.arg = << >>, !.out = << >>, !.ret = "none",
                                !.before = hasher.core]
    /\ UNCHANGED <<otherVars, buffer>>

HasherDigestInto(out) ==
    /\ hasher.alive
    /\ LET r == DigestInto(hasher.core, out)
       IN  hasher' = [core |-> r.core, alive |-> FALSE, op |-> "digest_into",
                      arg |-> out, out |-> r.out, ret |-> r.ret,
                      before |-> hasher.core]
    /\ UNCHANGED <<otherVars, buffer>>

HasherDigestIntoReset(out) ==
    /\ hasher.alive
    /\ LET r == DigestIntoReset(hasher.core, out)
       IN  hasher' = [core |-> r.core, alive |-> TRUE, op |-> "digest_into_reset",
                      arg |-> out, out |-> r.out, ret |-> r.ret,
                      before |-> hasher.core]
    /\ UNCHANGED <<otherVars, buffer>>

HasherNext ==
    \/ HasherNew
    \/ \E data \in Slices(BLOCK_SIZE + 1) : HasherUpdate(data)
    \/ \E out \in OutBuffers : HasherDigestInto(out)
    \/ \E out \in OutBuffers : HasherDigestIntoReset(out)

HasherSpec == Init /\ [][HasherNext]_vars

DigestCall == hasher.op \in {"digest_into", "digest_into_reset"}

(* C35. digest_into and digest_into_reset return InsufficientMemoryError   *)
(* when the output buffer is shorter than DIGEST_SIZE, and then write      *)
(* nothing to it and neither finalize nor reset the hasher; when it is     *)
(* long enough they write the first DIGEST_SIZE bytes of the digest, leave *)
(* the bytes after them alone, and return Ok.                              *)
C35_DigestInto ==
    DigestCall =>
        IF Len(hasher.arg) < DIGEST_SIZE
        THEN /\ hasher.ret = "Err"
             /\ hasher.out = hasher.arg
             /\ hasher.core = hasher.before
        ELSE /\ hasher.ret = "Ok"
             /\ Len(hasher.out) = Len(hasher.arg)
             /\ \A k \in 1 .. Len(hasher.out) :
                    hasher.out[k] = IF k <= DIGEST_SIZE
                                    THEN Finalize(hasher.before).digest[k]
                                    ELSE hasher.arg[k]
             /\ hasher.op = "digest_into_reset" => hasher.core = NewCore
\* digest_into_reset has refused a buffer one byte short on a hasher that
\* had compressed a block and holds bytes in its buffer.
C35_Witness ==
    /\ hasher.op = "digest_into_reset"
    /\ hasher.ret = "Err"
    /\ Len(hasher.arg) = DIGEST_SIZE - 1
    /\ hasher.core.msg_len > BLOCK_SIZE
    /\ hasher.core.pos > 0

(***************************************************************************)
(* Coalescing: buddies that are both free.                                 *)
(***************************************************************************)
\* The orders below the top one that hold a free block and its buddy.
BuddyOrders(fl) ==
    {i \in Orders : /\ i < ORDERS - 1
                    /\ \E a \in Nodes(fl[i]) :
                           XorBit(a, Shl1(i + BASE_ORDER)) \in Nodes(fl[i])}

\* The pool that holds the one block at 2 * MIN_BLOCK_SIZE, and the pool that
\* starts where that one ends and holds the block's buddy.
LowerPool == <<MIN_BLOCK_SIZE + 1, 2 * MIN_BLOCK_SIZE - 1>>
UpperPool == <<3 * MIN_BLOCK_SIZE, MIN_BLOCK_SIZE>>

\* C36, first part: while add_memory was called once, whatever was allocated
\* and given back since, no order below the top one holds a free block
\* together with its buddy.
C36_OneRegion == Cardinality(regions) <= 1 => BuddyOrders(free_list) = {}

\* C36, second part: add_memory of the pool right after a pool whose last
\* block is free and is the buddy of the new pool's first block leaves the two
\* buddies free side by side: add_memory merges nothing.
C36_AdjacentStep ==
    (/\ regions = {LowerPool}
     /\ 2 * MIN_BLOCK_SIZE \in Nodes(free_list[0])
     /\ regions' = {LowerPool, UpperPool}
     /\ ~panicked')
        => 0 \in BuddyOrders(free_list')

\* C36: after one add_memory and any allocate and deallocate calls no order
\* below the top one holds two free buddies; after a second add_memory on the
\* adjacent region it can.
C36_Coalesced == []C36_OneRegion /\ [][C36_AdjacentStep]_vars

\* Two pools were registered, two buddies of the smallest order are free.
C36_Witness ==
    /\ regions = {LowerPool, UpperPool}
    /\ 0 \in BuddyOrders(free_list)
    /\ ~panicked

(***************************************************************************)
(* C37. The free blocks are unique and disjoint: no address is twice in    *)
(* the free lists, no two free blocks share a byte, and no free block      *)
(* shares a byte with a block a caller holds.                              *)
(***************************************************************************)
\* No address is twice in one list or in the lists of two orders.
FreeUnique ==
    /\ \A i \in Orders : Len(free_list[i]) = Cardinality(Nodes(free_list[i]))
    /\ \A i \in Orders : \A j \in Orders :
           i # j => Nodes(free_list[i]) \cap Nodes(free_list[j]) = {}

FreeDisjoint ==
    \A b1 \in FreeBlocks : \A b2 \in FreeBlocks :
        b1 # b2 => RangesDisjoint(b1[1], BlockSize(b1[2]), b2[1], BlockSize(b2[2]))

FreeNotHeld ==
    \A f \in FreeBlocks : \A b \in allocated :
        RangesDisjoint(f[1], BlockSize(f[2]), b.ptr, BlockSizeOf(b))

C37_FreeUniqueDisjoint == FreeUnique /\ FreeDisjoint /\ FreeNotHeld

\* Two pools are registered, callers hold blocks, a deallocate has just merged
\* the block it was given with its buddy, and several orders hold free blocks.
C37_Witness ==
    /\ Cardinality(regions) = 2
    /\ allocated # {}
    /\ last.op = "deallocate"
    /\ last.index > LayoutIndex(last.size, last.align)
    /\ Cardinality({i \in Orders : ~IsTail(free_list[i])}) >= 2
    /\ ~panicked

(***************************************************************************)
(* C38. List well-formedness: after any pushes of detached nodes,          *)
(* pop_next and pop calls, a head's prev is null, every node with a node   *)
(* after it is that node's prev, the chain from a head ends without coming *)
(* back to a node, and a removed node has both links null.                 *)
(***************************************************************************)
\* n.next.prev = n for every header with a header after it.
LinkedBack ==
    \A n \in ListNodes :
        header[n].next # null => header[header[n].next].prev = n

\* Following next from a header reaches null before it has passed every other
\* header, and never passes the header itself or one header twice.
Acyclic ==
    \A n \in ListNodes :
        LET c == ChainFrom(header, header[n].next, NNodes)
        IN  /\ Len(c) < NNodes
            /\ n \notin Nodes(c)
            /\ Cardinality(Nodes(c)) = Len(c)

\* Following prev from a header ends at a head, whose prev is null.
Rooted == \A n \in ListNodes : header[HeadOf(header, n)].prev = null

\* The header the last call removed has both links null.
RemovedIsDetached ==
    /\ (last.op \in {"pop", "pop_next"} /\ last.ret # None)
           => Detached(header, last.ret)
    /\ (last.op = "next" /\ iter.popping /\ last.ret # None /\ last.ret # iter.from)
           => Detached(header, last.ret)

C38_Links == LinkedBack /\ Acyclic /\ Rooted /\ RemovedIsDetached

\* A head stays a head: the prev of a header changes from null only when the
\* header itself, detached, is pushed after another.
C38_HeadStep ==
    \A h \in ListNodes :
        (header[h].prev = null /\ header'[h].prev # null)
            => /\ last'.op = "push"
               /\ last'.ret = h
               /\ Detached(header, h)

C38_WellFormed == []C38_Links /\ [][C38_HeadStep]_vars

\* pop has removed a header from between two others: the list goes on from the
\* header before it to the header after it.
C38_Witness ==
    /\ last.op = "pop"
    /\ last.size > 0
    /\ Detached(header, last.ret)
    /\ \E h \in ListNodes :
           /\ header[h].prev = null
           /\ header[h].next # null
           /\ header[header[h].next].prev = h

(***************************************************************************)
(* add_memory on a new allocator for every start address from 0 to         *)
(* 2 * MAX_BLOCK_SIZE, address 0 and the multiples of MAX_BLOCK_SIZE and   *)
(* of 2 * MAX_BLOCK_SIZE among them, and every length up to                *)
(* 2 * MAX_BLOCK_SIZE + MIN_BLOCK_SIZE.                                    *)
(***************************************************************************)
AnyStartPools ==
    (0 .. 2 * MAX_BLOCK_SIZE) \X (0 .. 2 * MAX_BLOCK_SIZE + MIN_BLOCK_SIZE)

AnyStartNext == ScenarioAdd(AnyStartPools)

AnyStartSpec == Init /\ [][AnyStartNext]_vars

====
